---- MODULE Spec2Model ----
(***************************************************************************)
(* Session lifecycle and command-completion subsystem of the tmux MCP      *)
(* server: the lifecycle TmuxManager (src/src/tmux-manager.js:417-741) and *)
(* the retrying CommandExecutor (src/src/command-executor.js:211-598).     *)
(*                                                                         *)
(* The multiplexer is modelled at its command interface: each sub-command  *)
(* acts atomically on the set of windows of a session.  A sub-command may  *)
(* also fail transiently (the adapter's deadline elapses, or tmux exits    *)
(* non-zero for another reason); which invocations of one operation fail   *)
(* is an input of the operation (failAt, failKind).                        *)
(*                                                                         *)
(* The specifications share the variables:                                 *)
(*   Spec         the lifecycle manager, the cleanup sweep and the clock;  *)
(*   SpecWindows  Spec, and single windows closed out of band;             *)
(*   SpecExec     the command execution engine, the shell, the artifacts;  *)
(*   SpecWait     the engine and the shell alone, the shell's line taken   *)
(*                command by command; SpecWaitFair adds fairness;          *)
(*   SpecParse    the capture-artifact parser as a pure function.          *)
(***************************************************************************)
EXTENDS Integers, Sequences, FiniteSets, TLC

VARIABLES
    tmux,             \* backend truth: session id -> set of window names ({} = no session)
    shell,            \* backend: session id -> wrapped commands typed into the pane, head running
    sessionMetadata,  \* this.sessionMetadata (this.sessions, this.lastHealthCheck share its keys)
    uiLog,            \* ids whose /tmp/tmux-mcp-ui-<id>.log exists
    now,              \* Date.now(), in ms
    created,          \* history: ids whose backend session createSession built and nobody destroyed since
    destroyed,        \* history: ids whose backend session the manager killed and nobody built since
    outOfBand,        \* history: the backend was changed behind the manager's back
    lastCall,         \* history: the last manager operation, its result and the tmux commands it issued
    files,            \* /tmp: execution id -> [out: the capture artifact, done: the sentinel exists]
    nextExec,         \* number of execution ids drawn so far (uuidv4 is collision free)
    ex,               \* the executeCommand call in progress (one caller)
    parse,            \* SpecParse: the capture text under test and what _readOutput made of it
    adapter,          \* SpecAdapter: one invocation of _runTmuxCommand, its child process and promise
    peer,             \* SpecPair: a second call of executeCommand in flight, the one not in focus
    ws,               \* SpecParent, SpecWorkspace, SpecDetect: the workspace manager (and its backend)
    tool,             \* SpecServer: the last call of handleToolCall; SpecDetect: the requests of the server
    lifecycle         \* SpecInstall: this.tmuxAvailable and the last call; SpecRace: the createSession calls in flight

vars == <<tmux, shell, sessionMetadata, uiLog, now, created, destroyed, outOfBand, lastCall, files, nextExec, ex, parse, adapter, peer, ws, tool, lifecycle>>

----------------------------------------------------------------------------
(* Bounds of the model *)

\* clock ticks the model lets pass (one tick = one period of the cleanup timer)
MaxClock == 4
\* adapter invocations of one operation that may be made to fail
MaxCalls == 7
\* adapter invocations of one operation that do fail
MaxFaults == 1
\* characters of a command's combined output (SpecParse)
MaxOutputLen == 2
\* the timeout a caller passes, in ms
TimeoutMs == 100

SessionIds == {"a", "timed out"}
SessionOrder == <<"a", "timed out">>

----------------------------------------------------------------------------
(* Program constants *)

maxIdleTime == 30 * 60 * 1000
cleanupIntervalMs == 10 * 60 * 1000
maxRetries == 2
retryDelay == 1000
pollInterval == 100

\* the failure inputs of an operation that makes at most n adapter invocations
FailSets(n) ==
    {F \in SUBSET (1..(IF n < MaxCalls THEN n ELSE MaxCalls)) : Cardinality(F) <= MaxFaults}

----------------------------------------------------------------------------
(* Maps (JavaScript Map): a function whose domain is the set of keys *)

MapSet(m, k, v) == [x \in (DOMAIN m) \cup {k} |-> IF x = k THEN v ELSE m[x]]
MapDelete(m, k) == [x \in (DOMAIN m) \ {k} |-> m[x]]
EmptyMap == [x \in {} |-> 0]

----------------------------------------------------------------------------
(* The world an operation runs in: the backend, the registry, and the      *)
(* bookkeeping of the operation's adapter invocations.                     *)

World(failAt, failKind) ==
    [tmux |-> tmux, shell |-> shell, sessionMetadata |-> sessionMetadata,
     uiLog |-> uiLog, created |-> created, destroyed |-> destroyed, now |-> now, files |-> files,
     calls |-> 0, failAt |-> failAt, failKind |-> failKind, issued |-> {}]

NoErr == [kind |-> "none", inner |-> "none"]
Err(kind) == [kind |-> kind, inner |-> "none"]

\* what tmux itself does with one sub-command on session id
TmuxEffect(w, cmd, id) ==
    CASE cmd = "has-session" ->
            IF w.tmux[id] # {} THEN [w |-> w, err |-> NoErr, out |-> {}]
            ELSE [w |-> w, err |-> Err("notfound"), out |-> {}]
      [] cmd = "list-windows" ->
            IF w.tmux[id] # {} THEN [w |-> w, err |-> NoErr, out |-> w.tmux[id]]
            ELSE [w |-> w, err |-> Err("notfound"), out |-> {}]
      [] cmd = "new-session" ->
            IF w.tmux[id] = {}
            THEN [w |-> [w EXCEPT !.tmux[id] = {"exec"}, !.shell[id] = <<>>,
                                  !.destroyed = @ \ {id}],
                  err |-> NoErr, out |-> {}]
            ELSE [w |-> w, err |-> Err("generic"), out |-> {}]   \* duplicate session
      [] cmd = "new-window" ->
            IF w.tmux[id] # {}
            THEN [w |-> [w EXCEPT !.tmux[id] = @ \cup {"ui"}], err |-> NoErr, out |-> {}]
            ELSE [w |-> w, err |-> Err("notfound"), out |-> {}]
      [] cmd = "kill-session" ->
            IF w.tmux[id] # {}
            THEN [w |-> [w EXCEPT !.tmux[id] = {}, !.shell[id] = <<>>,
                                  !.created = @ \ {id},
                                  !.destroyed = @ \cup {id}],
                  err |-> NoErr, out |-> {}]
            ELSE [w |-> w, err |-> Err("notfound"), out |-> {}]
      [] cmd = "list-sessions" ->
            IF \E s \in SessionIds : w.tmux[s] # {}
            THEN [w |-> w, err |-> NoErr, out |-> {s \in SessionIds : w.tmux[s] # {}}]
            ELSE [w |-> w, err |-> Err("notfound"), out |-> {}]  \* no server running
      [] OTHER -> [w |-> w, err |-> Err("generic"), out |-> {}]

\* one more adapter invocation of the operation, on record
Counted(w, cmd, id) ==
    [w EXCEPT !.calls = @ + 1, !.issued = @ \cup {<<cmd, id>>}]

\* _runTmuxCommand: resolves with the output, or rejects with a classified error.
\* The n-th invocation of the operation fails without effect when n \in failAt.
_runTmuxCommand(w, cmd, id) ==
    IF w.calls + 1 \in w.failAt
    THEN [w |-> Counted(w, cmd, id), err |-> Err(w.failKind), out |-> {}]
    ELSE TmuxEffect(Counted(w, cmd, id), cmd, id)

----------------------------------------------------------------------------
(* Text.  A text is a sequence of characters; "NL" is the newline and "E"  *)
(* stands for the ten characters EXIT_CODE: (the marker prefix, whose last *)
(* character is a colon).                                                  *)

Digits == {"0", "1", "2", "3", "4", "5", "6", "7", "8", "9"}
DigitValue(c) ==
    CASE c = "0" -> 0 [] c = "1" -> 1 [] c = "2" -> 2 [] c = "3" -> 3 [] c = "4" -> 4
      [] c = "5" -> 5 [] c = "6" -> 6 [] c = "7" -> 7 [] c = "8" -> 8 [] c = "9" -> 9
DigitChar(n) ==
    CASE n = 0 -> "0" [] n = 1 -> "1" [] n = 2 -> "2" [] n = 3 -> "3" [] n = 4 -> "4"
      [] n = 5 -> "5" [] n = 6 -> "6" [] n = 7 -> "7" [] n = 8 -> "8" [] n = 9 -> "9"

\* Number.prototype.toString of a non-negative integer ($? expanded by the shell)
RECURSIVE Decimal(_)
Decimal(n) == IF n < 10 THEN <<DigitChar(n)>> ELSE Decimal(n \div 10) \o <<DigitChar(n % 10)>>

\* the value parseInt gives when no digit leads the string
NaN == 0 - 1000000

\* parseInt(str): the longest run of leading digits, NaN when there is none
RECURSIVE ParseDigits(_, _)
ParseDigits(str, acc) ==
    IF str = <<>> \/ Head(str) \notin Digits THEN acc
    ELSE ParseDigits(Tail(str), acc * 10 + DigitValue(Head(str)))
parseInt(str) ==
    IF str = <<>> \/ Head(str) \notin Digits THEN NaN ELSE ParseDigits(str, 0)

\* String.prototype.split(sep) for a one-character separator
RECURSIVE SplitAcc(_, _, _, _)
SplitAcc(text, sep, cur, acc) ==
    IF text = <<>> THEN Append(acc, cur)
    ELSE IF Head(text) = sep THEN SplitAcc(Tail(text), sep, <<>>, Append(acc, cur))
    ELSE SplitAcc(Tail(text), sep, Append(cur, Head(text)), acc)
Split(text, sep) == SplitAcc(text, sep, <<>>, <<>>)

\* Array.prototype.join('\n')
RECURSIVE Join(_)
Join(lines) ==
    IF lines = <<>> THEN <<>>
    ELSE IF Len(lines) = 1 THEN lines[1]
    ELSE lines[1] \o <<"NL">> \o Join(Tail(lines))

\* line.startsWith('EXIT_CODE:')
StartsWithMarker(line) == line # <<>> /\ Head(line) = "E"

\* line.split(':')[1] of a line that starts with the marker prefix
AfterFirstColon(line) == Split(Tail(line), ":")[1]

\* str.replace(/\n$/, '')
DropFinalNewline(text) ==
    IF text # <<>> /\ text[Len(text)] = "NL" THEN SubSeq(text, 1, Len(text) - 1) ELSE text

\* what the pane's shell leaves in the capture artifact once the wrapped command
\*   <command> > out 2>&1; echo "EXIT_CODE:$?" >> out
\* has run: the command's combined output, then the marker line
MarkerLine(status) == <<"E">> \o Decimal(status) \o <<"NL">>
CaptureOf(output, status) == output \o MarkerLine(status)

\* the for loop of _readOutput: the last marker-like line sets the exit code,
\* every other line is kept
RECURSIVE ScanLines(_, _, _)
ScanLines(lines, exitCode, stdoutLines) ==
    IF lines = <<>> THEN [exit_code |-> exitCode, stdoutLines |-> stdoutLines]
    ELSE IF StartsWithMarker(Head(lines))
         THEN ScanLines(Tail(lines), parseInt(AfterFirstColon(Head(lines))), stdoutLines)
         ELSE ScanLines(Tail(lines), exitCode, Append(stdoutLines, Head(lines)))

\* _readOutput of the retrying executor; file = [exists, text]
_readOutput(file) ==
    IF ~file.exists
    THEN [stdout |-> <<>>, exit_code |-> -1]
    ELSE LET r == ScanLines(Split(file.text, "NL"), 0, <<>>)
         IN  [stdout |-> DropFinalNewline(Join(r.stdoutLines)), exit_code |-> r.exit_code]

----------------------------------------------------------------------------
(* TmuxManager *)

\* _updateSessionMetadata without its guard: it makes a record of the update
_updateSessionMetadataCreating(w, id, field, value) ==
    IF id \in DOMAIN w.sessionMetadata
    THEN [w EXCEPT !.sessionMetadata[id][field] = value]
    ELSE [w EXCEPT !.sessionMetadata =
             MapSet(@, id, [[lastAccessed |-> w.now, commandCount |-> 0,
                             healthStatus |-> "healthy",
                             workingDirectory |-> "process.cwd"]
                            EXCEPT ![field] = value])]

_updateSessionMetadata(w, id, field, value) ==
    IF id \notin DOMAIN w.sessionMetadata
    THEN w
    ELSE [w EXCEPT !.sessionMetadata[id][field] = value]

RegistryDelete(w, id) ==
    [w EXCEPT !.sessionMetadata = MapDelete(@, id)]

\* sessionExists once list-windows has settled as r
SessionExistsOn(r, id) ==
    IF r.err.kind = "none"
    THEN IF "ui" \in r.out /\ "exec" \in r.out
         THEN [w |-> _updateSessionMetadata(r.w, id, "lastAccessed", r.w.now),
               ret |-> TRUE]
         ELSE [w |-> r.w, ret |-> FALSE]
    ELSE [w |-> RegistryDelete(r.w, id), ret |-> FALSE]

\* returns [w, ret]
sessionExists(w, id) == SessionExistsOn(_runTmuxCommand(w, "list-windows", id), id)

\* destroySession once kill-session has settled as k
DestroyKilled(k, id) ==
    IF k.err.kind # "none"
    THEN [w |-> k.w, ret |-> FALSE]
    ELSE [w |-> [RegistryDelete(k.w, id) EXCEPT !.uiLog = @ \ {id}], ret |-> TRUE]

\* lines 570-574 without the return on a failed has-session
DestroyProbedBlind(h, id) == DestroyKilled(_runTmuxCommand(h.w, "kill-session", id), id)

\* destroySession once has-session has settled as h
DestroyProbed(h, id) ==
    IF h.err.kind # "none"
    THEN [w |-> h.w, ret |-> FALSE]
    ELSE DestroyKilled(_runTmuxCommand(h.w, "kill-session", id), id)

\* returns [w, ret]; never throws for a string id
destroySession(w, id) == DestroyProbed(_runTmuxCommand(w, "has-session", id), id)

FreshMetadata(w) ==
    [lastAccessed |-> w.now, commandCount |-> 0, healthStatus |-> "healthy",
     workingDirectory |-> "process.cwd"]

\* the try block of createSession once new-window has settled as n
CreateRegistered(n, id) ==
    IF n.err.kind # "none" THEN [w |-> n.w, err |-> n.err]
    ELSE [w |-> [n.w EXCEPT !.uiLog = @ \cup {id},
                            !.sessionMetadata = MapSet(@, id, FreshMetadata(n.w)),
                            !.created = @ \cup {id}],
          err |-> NoErr]

\* the try block of createSession once new-session has settled as s
CreateUiWindow(s, id) ==
    IF s.err.kind # "none" THEN [w |-> s.w, err |-> s.err]
    ELSE CreateRegistered(_runTmuxCommand(s.w, "new-window", id), id)

\* the try block of createSession; returns [w, err]
CreateWindows(w, id) == CreateUiWindow(_runTmuxCommand(w, "new-session", id), id)

\* the catch block of createSession once its has-session has settled as h
CleanupProbed(h, id, err) ==
    [w |-> IF h.err.kind = "none" THEN destroySession(h.w, id).w ELSE h.w,
     err |-> [kind |-> "createFailed", inner |-> err.kind]]

\* the catch block of createSession: destroy what was half built, rethrow
CreateCleanup(w, id, err) ==
    CleanupProbed(_runTmuxCommand(w, "has-session", id), id, err)

\* the end of createSession: t is what the try block came to
CreateOutcome(t, id) ==
    IF t.err.kind = "none" THEN t ELSE CreateCleanup(t.w, id, t.err)

\* createSession without the early return of lines 465-468
CreateDecideRebuilds(sessionAlreadyExists, c, id) ==
    CreateOutcome(
        CreateWindows(IF sessionAlreadyExists THEN destroySession(c.w, id).w ELSE c.w, id),
        id)

\* createSession returning early for every session has-session finds,
\* configured or not (lines 461-468 without the test of sessionIsConfigured)
CreateDecideTrusting(sessionAlreadyExists, c, id) ==
    IF sessionAlreadyExists
    THEN [w |-> _updateSessionMetadata(c.w, id, "lastAccessed", c.w.now), err |-> NoErr]
    ELSE CreateOutcome(CreateWindows(c.w, id), id)

\* createSession from line 463 on, c being what sessionExists came to
CreateDecide(sessionAlreadyExists, c, id) ==
    IF sessionAlreadyExists /\ c.ret
    THEN [w |-> _updateSessionMetadata(c.w, id, "lastAccessed", c.w.now), err |-> NoErr]
    ELSE CreateOutcome(
            CreateWindows(IF sessionAlreadyExists THEN destroySession(c.w, id).w ELSE c.w,
                          id),
            id)

\* createSession once has-session has settled as h
CreateProbed(h, id) == CreateDecide(h.err.kind = "none", sessionExists(h.w, id), id)

\* returns [w, err]: err.kind = "none" when the call resolves with the id
createSession(w, id) == CreateProbed(_runTmuxCommand(w, "has-session", id), id)

\* listSessions once list-sessions has settled as r
ListedOn(r) ==
    IF r.err.kind = "none" THEN [w |-> r.w, ret |-> r.out] ELSE [w |-> r.w, ret |-> {}]

listSessions(w) == ListedOn(_runTmuxCommand(w, "list-sessions", "*"))

\* idleTime of getSessionHealth in world w
IdleTime(w, id) ==
    IF id \in DOMAIN w.sessionMetadata THEN w.now - w.sessionMetadata[id].lastAccessed
    ELSE 0

\* lines 593-596 without the early return for a session that does not exist
HealthOnBlind(e, id) ==
    [w |-> e.w, exists |-> TRUE,
     healthy |-> /\ id \in DOMAIN e.w.sessionMetadata
                 /\ e.w.sessionMetadata[id].healthStatus = "healthy",
     needs_cleanup |-> IdleTime(e.w, id) > maxIdleTime]

\* getSessionHealth once sessionExists has come to e
HealthOn(e, id) ==
    IF ~e.ret
    THEN [w |-> e.w, exists |-> FALSE, healthy |-> FALSE, needs_cleanup |-> FALSE]
    ELSE [w |-> e.w, exists |-> TRUE,
          healthy |-> /\ id \in DOMAIN e.w.sessionMetadata
                      /\ e.w.sessionMetadata[id].healthStatus = "healthy",
          needs_cleanup |-> IdleTime(e.w, id) > maxIdleTime]

\* returns [w, exists, healthy, needs_cleanup]
getSessionHealth(w, id) == HealthOn(sessionExists(w, id), id)

\* the decision of the for loop's body on the health hl
CleanupOn(hl, id) ==
    IF ~hl.exists THEN [w |-> hl.w, cleaned |-> {}]
    ELSE IF hl.needs_cleanup \/ ~hl.healthy
         THEN [w |-> destroySession(hl.w, id).w, cleaned |-> {id}]
         ELSE [w |-> hl.w, cleaned |-> {}]

\* the body of the for loop of performLifecycleCleanup for one session;
\* returns [w, cleaned]
CleanupOne(w, id) == CleanupOn(getSessionHealth(w, id), id)

\* the for loop: the listed sessions in the order list-sessions prints them
RECURSIVE CleanupLoop(_, _, _, _)
CleanupLoop(w, listed, i, cleaned) ==
    IF i > Len(SessionOrder) THEN [w |-> w, cleaned |-> cleaned]
    ELSE IF SessionOrder[i] \notin listed THEN CleanupLoop(w, listed, i + 1, cleaned)
    ELSE LET r == CleanupOne(w, SessionOrder[i])
         IN  CleanupLoop(r.w, listed, i + 1, cleaned \cup r.cleaned)

\* the for loop without the try/catch of lines 629-634, and a destroySession
\* that throws where it returns false: the first failure ends the sweep
RECURSIVE CleanupLoopAborting(_, _, _, _)
CleanupLoopAborting(w, listed, i, cleaned) ==
    IF i > Len(SessionOrder) THEN [w |-> w, cleaned |-> cleaned]
    ELSE IF SessionOrder[i] \notin listed THEN CleanupLoopAborting(w, listed, i + 1, cleaned)
    ELSE LET r == CleanupOne(w, SessionOrder[i])
         IN  IF r.cleaned # {} /\ r.w.tmux[SessionOrder[i]] # {}
             THEN [w |-> r.w, cleaned |-> cleaned]
             ELSE CleanupLoopAborting(r.w, listed, i + 1, cleaned \cup r.cleaned)

CleanupListedAborting(l) == CleanupLoopAborting(l.w, l.ret, 1, {})

\* the for loop over what listSessions returned
CleanupListed(l) == CleanupLoop(l.w, l.ret, 1, {})

\* returns [w, cleaned]
performLifecycleCleanup(w) == CleanupListed(listSessions(w))

\* recordCommandExecution doing nothing
recordCommandExecutionSkipped(w, id, workingDir) == w

recordCommandExecution(w, id, workingDir) ==
    IF id \in DOMAIN w.sessionMetadata
    THEN [w EXCEPT !.sessionMetadata[id] =
                      [@ EXCEPT !.lastAccessed = w.now,
                                !.commandCount = @ + 1,
                                !.workingDirectory = workingDir]]
    ELSE w

----------------------------------------------------------------------------
(* The shell of a session's pane and the artifacts in /tmp.                *)
(* Keys sent to the pane queue up behind the command in the foreground.    *)
(* A wrapped command                                                       *)
(*    <command> > out 2>&1; echo "EXIT_CODE:$?" >> out; touch done         *)
(* first opens out and writes the command's output, and later, when the    *)
(* command ends, appends the marker line and creates the sentinel.  When   *)
(* it ends is up to the shell: a command that outlasts every timeout is a  *)
(* command whose end is never scheduled.                                   *)

\* one execution id per attempt of the one executeCommand call of a behaviour
\* names for the artifacts of two calls of executeCommand, each of at most
\* maxRetries + 1 attempts
ExecIds == 1..(2 * (maxRetries + 1))
NoArtifacts == [exists |-> FALSE, text |-> <<>>, done |-> FALSE]

\* commands a caller may pass
EmptyCommand == [output |-> <<>>, status |-> 0, empty |-> TRUE]
\* echo x; exit 3
cmdExit3 == [output |-> <<"x", "NL">>, status |-> 3, empty |-> FALSE]
Commands == {cmdExit3}
\* echo "health_check", tmux display-message -p "#{pane_current_path}"
cmdSimple == [output |-> <<"x", "NL">>, status |-> 0, empty |-> FALSE]

\* exec = 0: a health_<id> command, whose artifacts are not tracked
Entry(e, c) == [exec |-> e, cmd |-> c, started |-> FALSE, marked |-> FALSE]

StartEntry(fs, entry) ==
    IF entry.exec = 0 THEN fs
    ELSE [fs EXCEPT ![entry.exec] = [@ EXCEPT !.exists = TRUE, !.text = entry.cmd.output]]

\* echo "EXIT_CODE:$?" >> outputFile
MarkEntry(fs, entry) ==
    IF entry.exec = 0 THEN fs
    ELSE [fs EXCEPT ![entry.exec] =
            [@ EXCEPT !.exists = TRUE, !.text = @ \o MarkerLine(entry.cmd.status)]]

\* touch doneMarker
TouchEntry(fs, entry) ==
    IF entry.exec = 0 THEN fs
    ELSE [fs EXCEPT ![entry.exec] = [@ EXCEPT !.done = TRUE]]

FinishEntry(fs, entry) == TouchEntry(MarkEntry(fs, entry), entry)

RunEntry(fs, entry) ==
    IF entry.marked THEN TouchEntry(fs, entry)
    ELSE FinishEntry(IF entry.started THEN fs ELSE StartEntry(fs, entry), entry)

\* the shell runs everything queued, in order
RECURSIVE Drain(_, _)
Drain(fs, queue) ==
    IF queue = <<>> THEN fs ELSE Drain(RunEntry(fs, Head(queue)), Tail(queue))

----------------------------------------------------------------------------
(* CommandExecutor (the retrying engine) *)

recoverableMessages ==
    {"tmux send-keys failed", "timed out", "Session not found", "Connection refused",
     "No such session"}

\* the phrases of recoverableMessages that the text of a session id includes
PhrasesIn(id) == {p \in recoverableMessages : id = p}

\* the phrases of recoverableMessages that error.message includes.  The
\* messages of the session-killed error, of a tmux command that timed out
\* (its arguments) and of one that failed (tmux's stderr) spell the session id.
MessageIncludes(kind, inner, id) ==
    CASE kind = "timeout" -> {"timed out"}
      [] kind = "sendKeysFailed" -> {"tmux send-keys failed"}
      [] kind = "sessionKilled" -> PhrasesIn(id)
      [] kind = "createFailed" /\ inner = "timeout" -> {"timed out"} \cup PhrasesIn(id)
      [] kind = "createFailed" /\ inner = "notfound" ->
            {"Session not found"} \cup PhrasesIn(id)
      [] kind = "createFailed" -> PhrasesIn(id)
      [] OTHER -> {}

\* message: the phrases of recoverableMessages the error's message includes
NoEngineErr == [kind |-> "none", inner |-> "none", message |-> {},
                recoverable |-> "unset", sessionKilled |-> FALSE, partialOutput |-> <<>>]
EngineErr(kind, inner, id) ==
    [NoEngineErr EXCEPT !.kind = kind, !.inner = inner,
                        !.message = MessageIncludes(kind, inner, id)]

_isRecoverableError(err) ==
    err.recoverable = "true" \/ err.message \cap recoverableMessages # {}

\* spawn('tmux', ['send-keys', '-t', sessionId, command, 'C-m']): returns [w, err]
_sendKeysToTmux(w, id, entry) ==
    IF w.calls + 1 \in w.failAt \/ w.tmux[id] = {}
    THEN [w |-> Counted(w, "send-keys", id), err |-> EngineErr("sendKeysFailed", "none", id)]
    ELSE [w |-> [Counted(w, "send-keys", id) EXCEPT !.shell[id] = Append(@, entry)],
          err |-> NoEngineErr]

\* _executeSimpleCommand once its keys were sent with outcome k
SimpleSent(k, id, inTime) ==
    IF k.err.kind # "none" THEN [w |-> k.w, ok |-> FALSE]
    ELSE IF inTime \/ Len(k.w.shell[id]) = 1
         THEN [w |-> [k.w EXCEPT !.files = Drain(@, k.w.shell[id]), !.shell[id] = <<>>],
               ok |-> TRUE]
         ELSE [w |-> k.w, ok |-> FALSE]

\* _executeSimpleCommand, run to its end: returns [w, ok].  inTime: the shell
\* ends what is queued ahead and runs the command before the command's own
\* timeout (2 or 3 s) expires; an idle shell always does.
_executeSimpleCommand(w, id, inTime) ==
    SimpleSent(_sendKeysToTmux(w, id, Entry(0, cmdSimple)), id, inTime)

_validateSessionHealth(w, id, inTime) == _executeSimpleCommand(w, id, inTime)

FromManager(err, id) ==
    IF err.kind = "none" THEN NoEngineErr ELSE EngineErr(err.kind, err.inner, id)

\* await this.tmuxManager.createSession(sessionId), as the engine sees it
Created(c, id) == [w |-> c.w, err |-> FromManager(c.err, id)]

\* destroySession then createSession: returns [w, err]
Recreate(w, id) == Created(createSession(destroySession(w, id).w, id), id)

\* if (!isHealthy) recreate the session
RecreateUnless(h, id) ==
    IF h.ok THEN [w |-> h.w, err |-> NoEngineErr] ELSE Recreate(h.w, id)

\* the head of _executeCommandAttempt once sessionExists has come to e
EnsureOn(e, id, attempt, inTime) ==
    IF ~e.ret THEN Created(createSession(e.w, id), id)
    ELSE IF attempt > 1 THEN RecreateUnless(_validateSessionHealth(e.w, id, inTime), id)
    ELSE [w |-> e.w, err |-> NoEngineErr]

\* the head of _executeCommandAttempt (lines 418-430): returns [w, err]
EnsureSession(w, id, attempt, inTime) ==
    EnsureOn(sessionExists(w, id), id, attempt, inTime)

\* _recoverSession once sessionExists has come to e
RecoverOn(e, id, inTime) ==
    IF ~e.ret THEN Created(createSession(e.w, id), id)
    ELSE RecreateUnless(_validateSessionHealth(e.w, id, inTime), id)

\* returns [w, err]
_recoverSession(w, id, inTime) == RecoverOn(sessionExists(w, id), id, inTime)

\* _cleanupFiles removing every artifact in the directory, not its own two
_cleanupFilesOfAll(w, e) == [w EXCEPT !.files = [x \in ExecIds |-> NoArtifacts]]

\* _executeCommandAttempt without its finally block (lines 466-468)
_cleanupFilesSkipped(w, e) == w

\* _cleanupFiles([outputFile, doneMarker]): unlink of an absent file throws
\* ENOENT, which the loop's catch only logs
_cleanupFiles(w, e) == [w EXCEPT !.files[e] = NoArtifacts]

\* fs.readFile(outputFile) of the timeout path: '' when the file is missing
PartialOutput(w, e) == IF w.files[e].exists THEN w.files[e].text ELSE <<>>

\* _waitForCompletion without the re-check of the session (lines 353-358)
TimeoutOnPlain(x, id, e) ==
    [w |-> x.w,
     err |-> [EngineErr("timeout", "none", id) EXCEPT
                 !.partialOutput = PartialOutput(x.w, e), !.recoverable = "true"]]

\* the throw sites of _waitForCompletion, x being what sessionExists came to
TimeoutOn(x, id, e) ==
    IF ~x.ret
    THEN [w |-> x.w,
          err |-> [EngineErr("sessionKilled", "none", id) EXCEPT
                      !.sessionKilled = TRUE, !.recoverable = "false"]]
    ELSE [w |-> x.w,
          err |-> [EngineErr("timeout", "none", id) EXCEPT
                      !.partialOutput = PartialOutput(x.w, e), !.recoverable = "true"]]

\* the throw sites of _waitForCompletion once elapsed > timeoutMs: returns [w, err]
TimeoutOutcome(w, id, e) == TimeoutOn(sessionExists(w, id), id, e)

NoResult == [kind |-> "none", failed |-> FALSE, stdout |-> <<>>, exit_code |-> 0,
             guidance |-> "none", attempts |-> 0, recoverable |-> FALSE,
             working_directory |-> "none"]

\* the guidance _createErrorResponse picks for a message with these phrases
Guidance(phrases, sessionKilled) ==
    IF "timed out" \in phrases THEN "timeout"
    ELSE IF sessionKilled THEN "sessionKilled"
    ELSE IF phrases \cap {"tmux send-keys failed", "No such session"} # {} THEN "sendKeys"
    ELSE IF "Connection refused" \in phrases THEN "daemon"
    ELSE "generic"

_createErrorResponse(err, attempts) ==
    [kind |-> "returned", failed |-> TRUE,
     stdout |-> err.partialOutput,
     exit_code |-> -1,
     guidance |-> Guidance(err.message, err.sessionKilled),
     attempts |-> attempts,
     recoverable |-> _isRecoverableError(err),
     working_directory |-> "none"]

\* the object _executeCommandAttempt returns
Completed(result, attempt, currentWorkingDirectory) ==
    [kind |-> "returned", failed |-> FALSE,
     stdout |-> result.stdout, exit_code |-> result.exit_code,
     guidance |-> "none", attempts |-> attempt, recoverable |-> FALSE,
     working_directory |-> currentWorkingDirectory]

\* _getCurrentWorkingDirectory's answer, wd being what its command came to
WorkingDirectory(wd) == IF wd.ok THEN "pane_current_path" ELSE "/tmp"

\* lines 442-464 once the output is read and the directory was asked for
CompleteOn(result, wd, id, attempt) ==
    [w |-> recordCommandExecution(wd.w, id, WorkingDirectory(wd)),
     result |-> Completed(result, attempt, WorkingDirectory(wd))]

\* lines 442-464 once the sentinel exists: returns [w, result]
CompleteAttempt(w, id, e, attempt, inTime) ==
    CompleteOn(_readOutput([exists |-> w.files[e].exists, text |-> w.files[e].text]),
               _executeSimpleCommand(w, id, inTime), id, attempt)

\* line 238 without the test of _isRecoverableError
ShouldRetryAny(err, attempt) == attempt <= maxRetries

\* line 238: whether the catch block tries recovery and the loop goes on
ShouldRetry(err, attempt) == _isRecoverableError(err) /\ attempt <= maxRetries

----------------------------------------------------------------------------
(* Operations of the lifecycle manager as actions.  Each runs to its end   *)
(* in one step; failAt names the adapter invocations that fail (here by    *)
(* the adapter's deadline: the manager treats every failure kind alike).   *)

Commit(w) ==
    /\ tmux' = w.tmux
    /\ shell' = w.shell
    /\ sessionMetadata' = w.sessionMetadata
    /\ uiLog' = w.uiLog
    /\ created' = w.created
    /\ destroyed' = w.destroyed

Faulted(w) == \E n \in w.failAt : n <= w.calls

Called(op, id, ret, cleaned, w) ==
    [op |-> op, id |-> id, ret |-> ret, cleaned |-> cleaned,
     issued |-> w.issued, faulted |-> Faulted(w)]

EngineIdle == UNCHANGED <<files, nextExec, ex, parse, adapter, peer, ws, tool, lifecycle>>

\* an operation of the manager came to r: its effects, and the caller's view
Settled(op, id, ret, cleaned, w) ==
    /\ Commit(w)
    /\ lastCall' = Called(op, id, ret, cleaned, w)
    /\ UNCHANGED <<now, outOfBand>>
    /\ EngineIdle

CreateSessionSettled(r, id) ==
    Settled("createSession", id, IF r.err.kind = "none" THEN "resolved" ELSE "threw",
            {}, r.w)

CreateSessionStep(id, failAt) ==
    CreateSessionSettled(createSession(World(failAt, "timeout"), id), id)

\* has-session, list-windows, has-session, kill-session, new-session,
\* new-window, has-session, has-session, kill-session
CallCreateSession(id) == \E failAt \in FailSets(9) : CreateSessionStep(id, failAt)

BooleanSettled(op, r, id) ==
    Settled(op, id, IF r.ret THEN "true" ELSE "false", {}, r.w)

DestroySessionStep(id, failAt) ==
    BooleanSettled("destroySession", destroySession(World(failAt, "timeout"), id), id)

CallDestroySession(id) == \E failAt \in FailSets(2) : DestroySessionStep(id, failAt)

SessionExistsStep(id, failAt) ==
    BooleanSettled("sessionExists", sessionExists(World(failAt, "timeout"), id), id)

CallSessionExists(id) == \E failAt \in FailSets(1) : SessionExistsStep(id, failAt)

\* what the caller of getSessionHealth sees: exists: false, or healthy
HealthSettled(hl, id) ==
    Settled("getSessionHealth", id,
            IF ~hl.exists THEN "absent" ELSE IF hl.healthy THEN "healthy" ELSE "unhealthy",
            {}, hl.w)

GetSessionHealthStep(id, failAt) ==
    HealthSettled(getSessionHealth(World(failAt, "timeout"), id), id)

CallGetSessionHealth(id) == \E failAt \in FailSets(1) : GetSessionHealthStep(id, failAt)

\* one sweep, from the background timer or from the tmux_cleanup_sessions tool
SweepSettled(r) ==
    Settled("performLifecycleCleanup", "*", "resolved", r.cleaned, r.w)

Sweep(failAt) == SweepSettled(performLifecycleCleanup(World(failAt, "timeout")))

\* list-sessions, then list-windows, has-session, kill-session per session
CallPerformLifecycleCleanup ==
    \E failAt \in FailSets(1 + 3 * Cardinality(SessionIds)) : Sweep(failAt)

\* time passes: one period of the cleanup timer
Tick ==
    /\ now < MaxClock * cleanupIntervalMs
    /\ now' = now + cleanupIntervalMs
    /\ UNCHANGED <<tmux, shell, sessionMetadata, uiLog, created, destroyed, lastCall, outOfBand>>
    /\ EngineIdle

\* the backend changes behind the manager's back: somebody kills the session
KillOutOfBand(id) ==
    /\ tmux[id] # {}
    /\ tmux' = [tmux EXCEPT ![id] = {}]
    /\ shell' = [shell EXCEPT ![id] = <<>>]
    /\ created' = created \ {id}
    /\ outOfBand' = TRUE
    /\ UNCHANGED <<sessionMetadata, uiLog, destroyed, now, lastCall>>
    /\ EngineIdle

NoCall == [op |-> "none", id |-> "*", ret |-> "none", cleaned |-> {},
           issued |-> {}, faulted |-> FALSE]

\* every session is absent, or survives (with both windows) from an earlier server
InitBackend ==
    /\ tmux \in [SessionIds -> {{}, {"exec", "ui"}}]
    /\ shell = [s \in SessionIds |-> <<>>]
    /\ sessionMetadata = EmptyMap
    /\ uiLog = {}
    /\ created = {}
    /\ destroyed = {}
    /\ outOfBand = FALSE
    /\ lastCall = NoCall

\* the workspace manager as constructed, before the detection has run: a
\* name is the sequence of its words (a space between two of them); own is
\* the window the server runs in and windows the windows of its session
NoWorkspace == [isUsingParentSession |-> FALSE, parentSession |-> <<>>, parentWindow |-> <<>>,
                own |-> <<"srv">>, windows |-> {<<"srv">>}, issued |-> {},
                last |-> [op |-> "none", window |-> <<>>, ret |-> "none"]]

\* the lifecycle manager as constructed (line 424), on a machine that has
\* tmux, and no call of it in flight
NoLifecycle == [tmuxAvailable |-> "null", installed |-> TRUE,
                last |-> [op |-> "none", id |-> "*", outcome |-> "none", missing |-> FALSE],
                creating |-> <<>>]

\* no tool call made yet
NoToolCall == [name |-> "none", args |-> "none", parent |-> FALSE, calls |-> <<>>,
               thrown |-> "none", outcome |-> "none", text |-> <<>>]

\* what a promise that has not settled holds
Pending == [kind |-> "pending", stdout |-> 0, stderr |-> <<>>, code |-> 0]

\* no invocation of _runTmuxCommand under way: no child process, no timer
NoAdapter == [proc |-> "none", timer |-> "none", signalled |-> FALSE,
              stdout |-> 0, stderr |-> <<>>, settled |-> Pending, calls |-> 0]

NoFile == [exists |-> FALSE, text |-> <<>>]
NoParse == [phase |-> "none", output |-> <<>>, status |-> 0, capture |-> NoFile,
            result |-> [stdout |-> <<>>, exit_code |-> 0]]

IdleOn(id) ==
    [pc |-> "idle", command |-> EmptyCommand, sessionId |-> id, timeoutMs |-> 0,
     attempt |-> 0, lastError |-> NoEngineErr, execId |-> 0, elapsed |-> 0,
     result |-> NoResult,
     \* history: ms slept so far, times the command was typed into a pane,
     \* runs of _recoverSession, the capture artifact's text when the attempt failed
     waited |-> 0, submitted |-> 0, recoveries |-> 0, readable |-> <<>>]

IdleEx == IdleOn("a")

InitEngine ==
    /\ files = [e \in ExecIds |-> NoArtifacts]
    /\ nextExec = 0
    /\ parse = NoParse
    /\ adapter = NoAdapter
    /\ peer = IdleOn("timed out")
    /\ ws = NoWorkspace
    /\ tool = NoToolCall
    /\ lifecycle = NoLifecycle

Init ==
    /\ InitBackend
    /\ InitEngine
    /\ ex = IdleEx
    /\ now = 0

Next ==
    \/ \E id \in SessionIds : CallCreateSession(id)
    \/ \E id \in SessionIds : CallDestroySession(id)
    \/ \E id \in SessionIds : CallSessionExists(id)
    \/ \E id \in SessionIds : CallGetSessionHealth(id)
    \/ CallPerformLifecycleCleanup
    \/ Tick
    \/ \E id \in SessionIds : KillOutOfBand(id)

Spec == Init /\ [][Next]_vars

\* SpecWindows: the same operations, and one window of a session may be
\* closed behind the manager's back (tmux kill-window, or the shell of the
\* pane exits).
\* list-windows then succeeds and lacks a name sessionExists looks for
\* (lines 533-541).  Closing the window that is left would end the session.
CloseWindowOutOfBand(id, window) ==
    /\ tmux[id] = {"exec", "ui"}
    /\ tmux' = [tmux EXCEPT ![id] = @ \ {window}]
    /\ shell' = [shell EXCEPT ![id] = IF window = "exec" THEN <<>> ELSE @]
    /\ outOfBand' = TRUE
    /\ UNCHANGED <<sessionMetadata, uiLog, created, destroyed, now, lastCall>>
    /\ EngineIdle

\* the clock stands still: what is asked of this specification does not
\* depend on how long a session has been idle
NextWindows ==
    \/ \E id \in SessionIds : CallCreateSession(id)
    \/ \E id \in SessionIds : CallDestroySession(id)
    \/ \E id \in SessionIds : CallSessionExists(id)
    \/ \E id \in SessionIds : CallGetSessionHealth(id)
    \/ CallPerformLifecycleCleanup
    \/ \E id \in SessionIds : KillOutOfBand(id)
    \/ \E id \in SessionIds, window \in {"exec", "ui"} : CloseWindowOutOfBand(id, window)

SpecWindows == Init /\ [][NextWindows]_vars

----------------------------------------------------------------------------
(* SpecExec: one caller of executeCommand on one session, the shell of the *)
(* pane, and what else happens meanwhile: other callers of the manager,    *)
(* the cleanup sweep, and a kill of the session behind the manager's back. *)
(* Every await of executeCommand that matters to its outcome is a step: the *)
(* head of an attempt up to the key injection, each poll, the catch block  *)
(* with its recovery.                                                      *)

\* the session the caller works on
ExecSession == ex.sessionId
\* the timeout argument, in ms (timeout * 1000)
Timeouts == {TimeoutMs}

CommitAll(w) == Commit(w) /\ files' = w.files

EngineFrame == UNCHANGED <<now, outOfBand, lastCall, parse, adapter, peer, ws, tool, lifecycle>>

\* lines 219-227
ExecuteCommand(c, t) ==
    /\ ex.pc = "idle"
    /\ ex' = IF c.empty
              THEN [ex EXCEPT !.pc = "done", !.result = [NoResult EXCEPT !.kind = "threw"]]
              ELSE [ex EXCEPT !.pc = "loop", !.command = c, !.timeoutMs = t]
    /\ UNCHANGED <<tmux, shell, sessionMetadata, uiLog, created, destroyed, files, nextExec>>
    /\ EngineFrame

\* lines 432-439, k being what the key injection came to
AttemptSent(k, attempt, e) ==
    IF k.err.kind # "none"
    THEN /\ CommitAll(_cleanupFiles(k.w, e))
         /\ nextExec' = e
         /\ ex' = [ex EXCEPT !.attempt = attempt, !.pc = "caught", !.execId = e,
                              !.lastError = k.err, !.readable = <<>>]
    ELSE /\ CommitAll(k.w)
         /\ nextExec' = e
         /\ ex' = [ex EXCEPT !.attempt = attempt, !.pc = "waiting", !.execId = e,
                              !.elapsed = 0, !.submitted = @ + 1]

\* lines 417-439, s being what the head of the attempt came to
AttemptEnsured(s, attempt, e) ==
    IF s.err.kind # "none"
    THEN /\ CommitAll(s.w)
         /\ nextExec' = nextExec
         /\ ex' = [ex EXCEPT !.attempt = attempt, !.pc = "caught",
                              !.lastError = s.err, !.readable = <<>>]
    ELSE AttemptSent(_sendKeysToTmux(s.w, ex.sessionId, Entry(e, ex.command)), attempt, e)

\* lines 229-232 and 417-439: the next attempt, up to the key injection,
\* with the adapter failing as one of faults says
AttemptStartWith(faults, times) ==
    /\ ex.pc = "loop"
    /\ \E failAt \in faults, inTime \in times :
        AttemptEnsured(EnsureSession(World(failAt, "timeout"), ex.sessionId,
                                     ex.attempt + 1, inTime),
                       ex.attempt + 1, nextExec + 1)
    /\ EngineFrame

AttemptStart == AttemptStartWith(FailSets(MaxCalls), BOOLEAN)

\* lines 442-468, c being what the attempt came to
Finished(c) ==
    /\ CommitAll(_cleanupFiles(c.w, ex.execId))
    /\ ex' = [ex EXCEPT !.pc = "done", !.result = c.result]

\* _waitForCompletion taking the status line in the capture artifact, not
\* the sentinel, for the sign of completion
PollCompletedOnMarker ==
    /\ ex.pc = "waiting"
    /\ _readOutput([exists |-> files[ex.execId].exists,
                    text |-> files[ex.execId].text]).exit_code >= 0
    /\ \E failAt \in FailSets(1), inTime \in BOOLEAN :
        Finished(CompleteAttempt(World(failAt, "timeout"), ex.sessionId, ex.execId,
                                 ex.attempt, inTime))
    /\ UNCHANGED nextExec
    /\ EngineFrame

\* _waitForCompletion, fs.access succeeds; then lines 442-468
PollCompletedWith(faults, times) ==
    /\ ex.pc = "waiting"
    /\ files[ex.execId].done
    /\ \E failAt \in faults, inTime \in times :
        Finished(CompleteAttempt(World(failAt, "timeout"), ex.sessionId, ex.execId,
                                 ex.attempt, inTime))
    /\ UNCHANGED nextExec
    /\ EngineFrame

PollCompleted == PollCompletedWith(FailSets(1), BOOLEAN)

\* _waitForCompletion, no sentinel and elapsed <= timeoutMs: sleep 100 ms
PollSleep ==
    /\ ex.pc = "waiting"
    /\ ~files[ex.execId].done
    /\ ~(ex.elapsed > ex.timeoutMs)
    /\ ex' = [ex EXCEPT !.elapsed = @ + pollInterval, !.waited = @ + pollInterval]
    /\ UNCHANGED <<tmux, shell, sessionMetadata, uiLog, created, destroyed, files, nextExec>>
    /\ EngineFrame

\* the finally block and the catch of line 233, t being what the wait threw
Thrown(t) ==
    /\ CommitAll(_cleanupFiles(t.w, ex.execId))
    /\ ex' = [ex EXCEPT !.pc = "caught", !.lastError = t.err,
                         !.readable = PartialOutput([files |-> files], ex.execId)]

\* _waitForCompletion, no sentinel and elapsed > timeoutMs; then the finally block
PollTimedOutWith(faults) ==
    /\ ex.pc = "waiting"
    /\ ~files[ex.execId].done
    /\ ex.elapsed > ex.timeoutMs
    /\ \E failAt \in faults :
        Thrown(TimeoutOutcome(World(failAt, "timeout"), ex.sessionId, ex.execId))
    /\ UNCHANGED nextExec
    /\ EngineFrame

PollTimedOut == PollTimedOutWith(FailSets(1))

\* lines 242-248: the loop goes on whether or not the recovery threw; the
\* retry delay is slept only when it did not
AfterRecovery(e, err) ==
    [e EXCEPT !.pc = "loop", !.recoveries = @ + 1,
              !.waited = IF err.kind = "none" THEN @ + retryDelay ELSE @]

\* lines 239-248 without the inner try/catch: a recovery that throws rejects
\* the call
RecoveredUncaught(r) ==
    /\ CommitAll(r.w)
    /\ ex' = IF r.err.kind = "none" THEN AfterRecovery(ex, r.err)
             ELSE [ex EXCEPT !.pc = "done", !.result = [NoResult EXCEPT !.kind = "threw"]]

\* lines 239-248, r being what _recoverSession came to
Recovered(r) ==
    /\ CommitAll(r.w)
    /\ ex' = AfterRecovery(ex, r.err)

\* the catch block, lines 233-249 and 252: recovery, then the next attempt
CatchRecoverWith(faults, times) ==
    /\ ex.pc = "caught"
    /\ ShouldRetry(ex.lastError, ex.attempt)
    /\ \E failAt \in faults, inTime \in times :
        Recovered(_recoverSession(World(failAt, "timeout"), ex.sessionId, inTime))
    /\ UNCHANGED nextExec
    /\ EngineFrame

CatchRecover == CatchRecoverWith(FailSets(MaxCalls), BOOLEAN)

\* lines 252-259: break, and the structured error
CatchGiveUp ==
    /\ ex.pc = "caught"
    /\ ~ShouldRetry(ex.lastError, ex.attempt)
    /\ ex' = [ex EXCEPT !.pc = "done",
                         !.result = _createErrorResponse(ex.lastError, ex.attempt - 1)]
    /\ UNCHANGED <<tmux, shell, sessionMetadata, uiLog, created, destroyed, files, nextExec>>
    /\ EngineFrame

ShellFrame == UNCHANGED <<tmux, sessionMetadata, uiLog, created, destroyed, now, outOfBand, lastCall,
                          nextExec, ex, parse, adapter, peer, ws, tool, lifecycle>>

\* the shell starts the command at the head of the queue
ShellStart(id) ==
    /\ shell[id] # <<>>
    /\ ~Head(shell[id]).started
    /\ shell' = [shell EXCEPT ![id][1].started = TRUE]
    /\ files' = StartEntry(files, Head(shell[id]))
    /\ ShellFrame

\* the command in the foreground ends; the shell appends the status line
\* and touches the sentinel (taken as one step)
ShellFinish(id) ==
    /\ shell[id] # <<>>
    /\ Head(shell[id]).started
    /\ ~Head(shell[id]).marked
    /\ shell' = [shell EXCEPT ![id] = Tail(@)]
    /\ files' = FinishEntry(files, Head(shell[id]))
    /\ ShellFrame

InitExec ==
    /\ ex \in {IdleOn(id) : id \in SessionIds}
    /\ tmux \in {t \in [SessionIds -> {{}, {"exec", "ui"}}] :
                    \A id \in SessionIds \ {ExecSession} : t[id] = {}}
    /\ shell = [s \in SessionIds |-> <<>>]
    /\ sessionMetadata = EmptyMap
    /\ uiLog = {}
    /\ created = {}
    /\ destroyed = {}
    /\ outOfBand = FALSE
    /\ lastCall = NoCall
    /\ InitEngine
    /\ now = 0

NextExec ==
    \/ \E c \in Commands \cup {EmptyCommand}, t \in Timeouts : ExecuteCommand(c, t)
    \/ AttemptStart
    \/ PollCompleted
    \/ PollSleep
    \/ PollTimedOut
    \/ CatchRecover
    \/ CatchGiveUp
    \/ ShellStart(ExecSession)
    \/ ShellFinish(ExecSession)
    \/ CreateSessionStep(ExecSession, {})
    \/ Sweep({})
    \/ KillOutOfBand(ExecSession)

SpecExec == InitExec /\ [][NextExec]_vars

----------------------------------------------------------------------------
(* SpecWait: one caller of executeCommand and the shell of the pane, with  *)
(* nobody else at work.  The three commands of the line typed into the     *)
(* pane (line 437) are three steps of the shell, so that a poll may fall   *)
(* between the status line's arrival in the capture artifact and the       *)
(* sentinel's creation.                                                    *)

\* the command in the foreground ends, and the shell appends the status line
ShellMark(id) ==
    /\ shell[id] # <<>>
    /\ Head(shell[id]).started
    /\ ~Head(shell[id]).marked
    /\ shell' = [shell EXCEPT ![id][1].marked = TRUE]
    /\ files' = MarkEntry(files, Head(shell[id]))
    /\ ShellFrame

\* the shell touches the sentinel, the last command of the line typed
ShellTouch(id) ==
    /\ shell[id] # <<>>
    /\ Head(shell[id]).marked
    /\ shell' = [shell EXCEPT ![id] = Tail(@)]
    /\ files' = TouchEntry(files, Head(shell[id]))
    /\ ShellFrame

NextWait ==
    \/ \E c \in Commands \cup {EmptyCommand}, t \in Timeouts : ExecuteCommand(c, t)
    \/ AttemptStart
    \/ PollCompleted
    \/ PollSleep
    \/ PollTimedOut
    \/ CatchRecover
    \/ CatchGiveUp
    \/ ShellStart(ExecSession)
    \/ ShellMark(ExecSession)
    \/ ShellTouch(ExecSession)

SpecWait == InitExec /\ [][NextWait]_vars

\* SpecWaitFair: the same, and nothing that can run waits forever.  Every
\* step of the engine is the continuation of an await on a timer or on a
\* child process that ends (the adapter's deadline, the poll's sleep), and
\* the shell goes on to the next command of its line.  No step calls
\* cleanupStaleFiles (lines 575-597): the engine's constructor (212-217) does
\* not, and nothing else in the sources does.  The steps of the engine that
\* call the manager (AttemptStart, PollCompleted, PollTimedOut, CatchRecover)
\* carry no condition of their own: they are enabled only while the call is
\* under way, and once it has returned (ex.pc = "done") they never are again.
FairWait ==
    /\ WF_vars(PollSleep)
    /\ WF_vars(CatchGiveUp)
    /\ WF_vars(ShellStart(ExecSession))
    /\ WF_vars(ShellMark(ExecSession))
    /\ WF_vars(ShellTouch(ExecSession))

SpecWaitFair == SpecWait /\ FairWait

----------------------------------------------------------------------------
(* SpecParse: the capture artifact of one wrapped command and its parsing. *)
(* The command's combined output and its exit status are the inputs.       *)

OutputChars == {"x", "NL", "E", "7", ":"}
RECURSIVE TextsOfLen(_)
TextsOfLen(n) ==
    IF n = 0 THEN {<<>>}
    ELSE {Append(t, c) : t \in TextsOfLen(n - 1), c \in OutputChars}
Outputs == UNION {TextsOfLen(n) : n \in 0..MaxOutputLen}
Statuses == {0, 3, 12}

InitParse ==
    /\ tmux = [s \in SessionIds |-> {}]
    /\ shell = [s \in SessionIds |-> <<>>]
    /\ sessionMetadata = EmptyMap
    /\ uiLog = {}
    /\ created = {}
    /\ destroyed = {}
    /\ outOfBand = FALSE
    /\ lastCall = NoCall
    /\ now = 0
    /\ files = [e \in ExecIds |-> NoArtifacts]
    /\ nextExec = 0
    /\ ex = IdleEx
    /\ adapter = NoAdapter
    /\ peer = IdleEx
    /\ ws = NoWorkspace
    /\ tool = NoToolCall
    /\ lifecycle = NoLifecycle
    /\ \E o \in Outputs, st \in Statuses :
          parse = [NoParse EXCEPT !.phase = "command", !.output = o, !.status = st]

ParseOnly ==
    UNCHANGED <<tmux, shell, sessionMetadata, uiLog, now, created, destroyed, outOfBand, lastCall,
                files, nextExec, ex, adapter, peer, ws, tool, lifecycle>>

\* the pane's shell runs the wrapped command to its end
ShellRunsWrapped ==
    /\ parse.phase = "command"
    /\ parse' = [parse EXCEPT !.phase = "captured",
                               !.capture = [exists |-> TRUE,
                                            text |-> CaptureOf(parse.output, parse.status)]]
    /\ ParseOnly

\* the sentinel was seen: _executeCommandAttempt reads the capture artifact
\* and returns {...result, ...}
ReadOutput ==
    /\ parse.phase = "captured"
    /\ parse' = [parse EXCEPT !.phase = "read", !.result = _readOutput(parse.capture)]
    /\ ParseOnly

NextParse == ShellRunsWrapped \/ ReadOutput

SpecParse == InitParse /\ [][NextParse]_vars

\* C2: for a command that completed, the exit code returned is the status
\* the shell recorded, and stdout is the command's combined output (the
\* capture artifact without the injected marker line), its final newline
\* apart; also for an output with lines that begin with EXIT_CODE:.
C2_ExitCodeAndOutputFaithful ==
    parse.phase = "read" =>
        /\ parse.result.exit_code = parse.status
        /\ parse.result.stdout \in {parse.output, DropFinalNewline(parse.output)}

----------------------------------------------------------------------------
(* Claims about the lifecycle manager (specification Spec) *)

Idle(id) == now - sessionMetadata[id].lastAccessed > maxIdleTime

\* C1: a cleanup sweep (none of whose adapter invocations fails) destroys
\* every recorded session whose last access is older than the idle
\* threshold, and leaves every recorded session accessed within the
\* threshold alive with its Registry record.
C1_SweepReapsExactlyIdle ==
    [][Sweep({}) =>
        \A id \in DOMAIN sessionMetadata :
            IF Idle(id)
            THEN tmux'[id] = {} /\ id \notin DOMAIN sessionMetadata'
            ELSE tmux'[id] = tmux[id] /\ id \in DOMAIN sessionMetadata']_vars

\* C3: as long as nobody changed the backend behind the manager's back, the
\* Registry holds a record for exactly the ids whose backend session
\* createSession built and nobody destroyed since.
C3_RegistryIffCreated ==
    ~outOfBand => DOMAIN sessionMetadata = created

\* C4: a createSession(id) that directly follows a resolved createSession(id)
\* and meets no adapter failure resolves, issues neither new-session nor
\* new-window nor kill-session, and leaves the backend session and the
\* Registry record as they were, lastAccessed apart.
SameButAccess(m1, m2) ==
    /\ DOMAIN m1 = DOMAIN m2
    /\ \A id \in DOMAIN m1 :
          [m1[id] EXCEPT !.lastAccessed = 0] = [m2[id] EXCEPT !.lastAccessed = 0]

Unrecorded(id) == tmux[id] = {"exec", "ui"} /\ id \notin DOMAIN sessionMetadata

\* C18: a sweep resolves; and when exactly one adapter invocation of it
\* failed and that was the kill-session of one session (it was issued and the
\* session is still there), every other session the sweep had to destroy
\* was examined and destroyed in the same sweep.
C18_SweepSurvivesFailedDestroy ==
    [][\A n \in 1..(1 + 3 * Cardinality(SessionIds)) :
        (lastCall'.op = "performLifecycleCleanup" /\ lastCall'.faulted /\ Sweep({n}))
        => (/\ lastCall'.ret = "resolved"
            /\ \A s \in SessionIds :
                  (<<"kill-session", s>> \in lastCall'.issued /\ tmux'[s] # {})
                  => \A t \in SessionIds \ {s} :
                        Unrecorded(t)
                        => (/\ <<"list-windows", t>> \in lastCall'.issued
                            /\ tmux'[t] = {}
                            /\ t \in lastCall'.cleaned))]_vars

\* a sweep has failed to kill one session and has killed another
C18_Witness ==
    /\ lastCall.op = "performLifecycleCleanup" /\ lastCall.ret = "resolved"
    /\ lastCall.faulted
    /\ \E s, t \in SessionIds :
          /\ s # t
          /\ <<"kill-session", s>> \in lastCall.issued /\ tmux[s] # {}
          /\ <<"kill-session", t>> \in lastCall.issued /\ tmux[t] = {}
          /\ t \in lastCall.cleaned

\* C20: createSession retries the backend creation when an adapter
\* invocation fails transiently and throws only after all retries failed:
\* so a createSession(id) of an absent session during which exactly one
\* adapter invocation fails does not throw.
C20_CreateSessionRetriesTransientFailure ==
    [][\A id \in SessionIds, failAt \in FailSets(9) :
        (/\ tmux[id] = {}
         /\ Cardinality(failAt) = 1
         /\ CreateSessionStep(id, failAt))
        => lastCall'.ret = "resolved"]_vars

----------------------------------------------------------------------------
(* Claims about executeCommand (specification SpecExec) *)

\* nobody but the engine touched the session since the start
Undisturbed == ~outOfBand /\ lastCall.op = "none"

\* C5: when the sentinel never appears within the timeout and the session
\* stays alive (and every attempt got as far as typing the command and
\* waiting for it), executeCommand returns its Timeout result after having
\* waited at most one timeout period plus one poll interval.
C5_TimeoutWithinOnePeriod ==
    (/\ ex.pc = "done" /\ ex.result.failed
     /\ ex.lastError.kind = "timeout"
     /\ ex.submitted = ex.attempt
     /\ Undisturbed)
    => ex.waited <= ex.timeoutMs + pollInterval

\* C6: an execution that ends in a timeout or in the session-killed
\* condition returns exit_code -1 and, as stdout, the content of the capture
\* artifact that was readable when the attempt failed.
C6_FailureCarriesPartialOutput ==
    (/\ ex.pc = "done" /\ ex.result.failed
     /\ ex.lastError.kind \in {"timeout", "sessionKilled"})
    => (ex.result.exit_code = -1 /\ ex.result.stdout = ex.readable)

\* C7: for a non-empty command, whatever fails (session creation, key
\* injection, polling, session recovery), executeCommand resolves with a
\* result object, whose exit_code is -1 when the execution failed; it never
\* rejects.
C7_AlwaysStructuredResult ==
    (ex.pc = "done" /\ ~ex.command.empty)
    => (/\ ex.result.kind = "returned"
        /\ ex.result.failed => ex.result.exit_code = -1)

\* every attempt failed at session creation, recoveries were tried, and the
\* call resolved with the structured error
C7_Witness ==
    /\ ex.pc = "done" /\ ex.result.kind = "returned" /\ ex.result.failed
    /\ ex.lastError.kind = "createFailed"
    /\ ex.recoveries > 0

\* C8: one executeCommand call makes at most maxRetries + 1 attempts, and
\* makes an attempt after the first only when the attempt before it failed
\* with an error that _isRecoverableError classifies as recoverable.
C8_RetryOnlyRecoverable ==
    [][ex'.attempt > ex.attempt =>
          /\ ex'.attempt <= maxRetries + 1
          /\ ex.attempt >= 1 => _isRecoverableError(ex.lastError)]_vars

\* the third attempt failed as well and the call returned
C8_Witness ==
    /\ ex.pc = "done" /\ ex.result.failed
    /\ ex.attempt = maxRetries + 1
    /\ _isRecoverableError(ex.lastError)

\* C9: once an attempt has failed with the session-killed condition, the
\* next thing executeCommand does is return: no session recovery, no
\* further attempt.
C9_SessionKilledShortCircuits ==
    [][(ex.pc = "caught" /\ ex.lastError.sessionKilled /\ ex' # ex)
          => (ex'.pc = "done" /\ ex'.recoveries = ex.recoveries)]_vars

\* the command typed by the current attempt is neither queued nor running,
\* and did not end: the session it was typed into was destroyed
Lost ==
    /\ ex.pc = "waiting"
    /\ ~files[ex.execId].done
    /\ \A i \in DOMAIN shell[ExecSession] : shell[ExecSession][i].exec # ex.execId

C11_NoSweepUnderInFlightCommand ==
    [][(/\ ex.pc = "waiting"
        /\ lastCall' # lastCall
        /\ lastCall'.op = "performLifecycleCleanup")
          => tmux'[ExecSession] = tmux[ExecSession]]_vars

\* C12: whenever sessionExists(id) has returned false, the Registry holds no
\* record for id, be the backend session gone or present without one of its
\* two windows.
C12_FalseLeavesNoRecord ==
    (lastCall.op = "sessionExists" /\ lastCall.ret = "false")
    => lastCall.id \notin DOMAIN sessionMetadata

\* C13: destroySession on an id whose backend session does not exist
\* (never created, or destroyed before) returns false without throwing,
\* issues no kill-session, and leaves the backend as it was.
C13_DestroyAbsentReturnsFalse ==
    [][\A id \in SessionIds :
        (tmux[id] = {} /\ CallDestroySession(id))
        => (/\ lastCall'.ret = "false"
            /\ <<"kill-session", id>> \notin lastCall'.issued
            /\ tmux' = tmux)]_vars

\* destroySession has returned false on a session this manager had destroyed
\* before, its has-session having answered "no such session"
C13_Witness ==
    /\ lastCall.op = "destroySession" /\ lastCall.ret = "false"
    /\ lastCall.id \in destroyed
    /\ tmux[lastCall.id] = {}
    /\ lastCall.issued = {<<"has-session", lastCall.id>>}
    /\ ~lastCall.faulted

\* C14: from the moment the manager destroyed a session (destroySession or
\* the sweep killed it) until the backend session is built again,
\* sessionExists(id) returns false and getSessionHealth(id) returns
\* exists: false; neither throws.
C14_DestroyedStaysAbsent ==
    [][\A id \in destroyed :
        /\ CallSessionExists(id) => lastCall'.ret = "false"
        /\ CallGetSessionHealth(id) => lastCall'.ret = "absent"]_vars

\* getSessionHealth has answered exists: false for a session the manager
\* destroyed, its list-windows having answered "no such session"
C14_Witness ==
    /\ lastCall.op = "getSessionHealth" /\ lastCall.ret = "absent"
    /\ lastCall.id \in destroyed
    /\ lastCall.issued = {<<"list-windows", lastCall.id>>}
    /\ ~lastCall.faulted

\* the step with which an attempt that typed, or tried to type, its command
\* ends: the wait returned or threw, or the key injection failed
AttemptEnds ==
    \/ ex.pc = "waiting" /\ ex'.pc # "waiting"
    \/ ex.pc = "loop" /\ ex'.pc = "caught" /\ ex'.lastError.kind = "sendKeysFailed"

\* C16: when an attempt ends (completed, timed out, session lost, or key
\* injection failed), neither its capture artifact nor its sentinel is left
\* once the step is over; and when both were absent already, the attempt
\* ends as the wait or the key injection decided (timeout, session lost,
\* key injection failed), not with an error of the deletion.
C16_ArtifactsDeletedWhenAttemptEnds ==
    [][AttemptEnds
          => (/\ files'[ex'.execId] = NoArtifacts
              /\ files[ex'.execId] = NoArtifacts
                    => (/\ ex'.pc = "caught"
                        /\ ex'.lastError.kind \in {"timeout", "sessionKilled",
                                                   "sendKeysFailed"}))]_vars

\* an attempt timed out whose command the shell had not started: there was
\* nothing to delete, and the attempt ended as a timeout
C16_Witness ==
    /\ ex.pc = "caught" /\ ex.lastError.kind = "timeout"
    /\ files[ex.execId] = NoArtifacts
    /\ shell[ExecSession] # <<>>
    /\ Head(shell[ExecSession]).exec = ex.execId
    /\ ~Head(shell[ExecSession]).started

\* the probe of _recoverSession fails: the session is there, and
\* echo "health_check" does not come back in time or cannot be typed
ProbeFails(e, id, inTime) == e.ret /\ ~_validateSessionHealth(e.w, id, inTime).ok

\* C19: when the responsiveness probe of a recovery has failed and the
\* session was not built anew by that recovery, the Registry record of the
\* session (if it has one) says unhealthy afterwards, so that
\* getSessionHealth reports it not healthy.
C19_FailedProbeMarksUnhealthy ==
    [][\A failAt \in FailSets(MaxCalls), inTime \in BOOLEAN :
        (/\ ex.pc = "caught"
         /\ ShouldRetry(ex.lastError, ex.attempt)
         /\ ProbeFails(sessionExists(World(failAt, "timeout"), ExecSession),
                       ExecSession, inTime)
         /\ <<"new-session", ExecSession>> \notin
               _recoverSession(World(failAt, "timeout"), ExecSession, inTime).w.issued
         /\ Recovered(_recoverSession(World(failAt, "timeout"), ExecSession, inTime)))
        => (ExecSession \in DOMAIN sessionMetadata'
              => sessionMetadata'[ExecSession].healthStatus = "unhealthy")]_vars

----------------------------------------------------------------------------
(* Claims about the wait for completion (specification SpecWait) *)

\* C15: the step the engine takes at a poll completes the attempt (the call
\* returns the command's result) exactly when the attempt's sentinel exists
\* at that poll, whatever the capture artifact holds: a status line in the
\* capture without the sentinel does not complete it, and with the sentinel
\* nothing keeps it from completing.
C15_CompletedIffSentinel ==
    [][(ex.pc = "waiting" /\ ex' # ex)
          => (files[ex.execId].done
                <=> (/\ ex'.pc = "done"
                     /\ ex'.result.kind = "returned"
                     /\ ~ex'.result.failed))]_vars

\* the wait timed out although the capture artifact held the command's
\* output and its status line: the sentinel had not been touched yet
C15_Witness ==
    /\ ex.pc = "caught" /\ ex.lastError.kind = "timeout"
    /\ ex.readable = ex.command.output \o MarkerLine(ex.command.status)

\* an artifact of execution e exists although the attempt that drew e is over
Orphaned(e) ==
    /\ files[e].exists \/ files[e].done
    /\ ~(e = ex.execId /\ ex.pc = "waiting")

\* C17: every orphaned artifact of an execution is eventually removed; in
\* particular one that is there when executeCommand has returned its
\* timeout result.
C17_OrphansEventuallyRemoved ==
    \A e \in ExecIds :
        (/\ Orphaned(e)
         /\ ex.pc = "done" /\ ex.result.failed /\ ex.lastError.kind = "timeout")
        ~> ~Orphaned(e)

\* the wrapped command of execution e is queued or running in the pane
InPane(sh, e) == \E i \in DOMAIN sh : sh[i].exec = e

\* C22: what the engine does after an attempt timed out does not stop the
\* attempt's command: if the command was in the pane when the attempt timed
\* out, then after the engine's next step the session is there and the
\* command is still in the pane, or has run to its end.
C22_TimeoutLeavesCommandRunning ==
    [][(/\ ex.pc = "caught" /\ ex.lastError.kind = "timeout"
        /\ ex' # ex
        /\ InPane(shell[ExecSession], ex.execId))
          => (/\ tmux'[ExecSession] # {}
              /\ InPane(shell'[ExecSession], ex.execId) \/ files'[ex.execId].done)]_vars

\* C23: the attempt count in the result of executeCommand (attempts of the
\* structured error, attempt of a successful result) is the number of
\* attempts the call made.
C23_ReportedAttemptsAreAttemptsMade ==
    (ex.pc = "done" /\ ex.result.kind = "returned")
    => ex.result.attempts = ex.attempt

----------------------------------------------------------------------------
(* Claims about the manager with windows closed out of band (SpecWindows) *)

----------------------------------------------------------------------------
(* The adapter: one invocation of _runTmuxCommand (SpecAdapter)            *)
(* The child process, its two output streams, the timer and the promise    *)
(* the invocation returns.  stdout counts the chunks received; stderr is   *)
(* the sequence of chunks received, each one of StderrChunks.              *)

StderrChunks == {"no such session", "no server running", "other"}

\* the exit codes a close event carries: 0, a failure, and -1 for the null
\* of a child ended by a signal or never spawned
ExitCodes == {0, 1, -1}

SpawnErrnos == {"ENOENT", "EACCES"}

AdapterFrame ==
    UNCHANGED <<tmux, shell, sessionMetadata, uiLog, now, created, destroyed, outOfBand, lastCall,
                files, nextExec, ex, parse, peer, ws, tool, lifecycle>>

\* a promise whose every resolve or reject call took effect
SettleOverwriting(a, outcome) ==
    [a EXCEPT !.calls = @ + 1, !.settled = outcome]

\* resolve and reject of a promise: the first call settles it, later calls
\* have no effect
Settle(a, outcome) ==
    [a EXCEPT !.calls = @ + 1,
              !.settled = IF a.settled.kind = "pending" THEN outcome ELSE @]

\* stderr.includes('no server running') || stderr.includes('no such session')
SaysNotFound(stderr) ==
    \E i \in DOMAIN stderr : stderr[i] \in {"no server running", "no such session"}

\* what the close handler settles the promise with
CloseOutcome(a, code) ==
    IF code = 0
    THEN [kind |-> "resolved", stdout |-> a.stdout, stderr |-> a.stderr, code |-> code]
    ELSE [kind |-> IF SaysNotFound(a.stderr) THEN "sessionNotFound" ELSE "failed",
          stdout |-> 0, stderr |-> a.stderr, code |-> code]

\* what the error handler settles the promise with: the error of spawn, its
\* message replaced when the binary is missing
ErrorOutcome(errno) ==
    [kind |-> IF errno = "ENOENT" THEN "binaryMissing" ELSE "spawnError",
     stdout |-> 0, stderr |-> <<>>, code |-> 0]

TimedOutRejection == [kind |-> "timedOut", stdout |-> 0, stderr |-> <<>>, code |-> 0]

\* _runTmuxCommand(args, timeout) with the arguments and the positive
\* timeout every caller passes: spawn the child and arm the timer.  A new
\* invocation starts once the child of the previous one is gone.
RunTmuxCommand ==
    /\ adapter.proc \in {"none", "closed"}
    /\ adapter' = [NoAdapter EXCEPT !.proc = "running", !.timer = "armed"]
    /\ AdapterFrame

\* a chunk arrives on the child's stdout
StdoutData ==
    /\ adapter.proc = "running"
    /\ adapter.stdout < MaxOutputLen
    /\ adapter' = [adapter EXCEPT !.stdout = @ + 1]
    /\ AdapterFrame

\* a chunk arrives on the child's stderr
StderrData(chunk) ==
    /\ adapter.proc = "running"
    /\ Len(adapter.stderr) < MaxOutputLen
    /\ adapter' = [adapter EXCEPT !.stderr = Append(@, chunk)]
    /\ AdapterFrame

\* the timer fires: SIGTERM to the child, then reject
TimerFires ==
    /\ adapter.timer = "armed"
    /\ adapter' = Settle([adapter EXCEPT !.timer = "fired", !.signalled = TRUE],
                         TimedOutRejection)
    /\ AdapterFrame

\* the child could not be spawned: the error event, before any output
ProcError(errno) ==
    /\ adapter.proc = "running"
    /\ adapter.stdout = 0 /\ adapter.stderr = <<>>
    /\ ~adapter.signalled
    /\ adapter' = Settle([adapter EXCEPT !.proc = "errored",
                                         !.timer = IF @ = "armed" THEN "cleared" ELSE @],
                         ErrorOutcome(errno))
    /\ AdapterFrame

\* the close event: the child is gone and its streams have ended.  A child
\* that was not spawned closes with no exit code, one that was signalled
\* with no exit code or with the code it chose to exit with.
ProcClose(code) ==
    /\ adapter.proc \in {"running", "errored"}
    /\ adapter.proc = "errored" => code = -1
    /\ (code = -1 /\ adapter.proc = "running") => adapter.signalled
    /\ adapter' = Settle([adapter EXCEPT !.proc = "closed",
                                         !.timer = IF @ = "armed" THEN "cleared" ELSE @],
                         CloseOutcome(adapter, code))
    /\ AdapterFrame

InitAdapter ==
    /\ Init
    /\ tmux = [s \in SessionIds |-> {}]

NextAdapter ==
    \/ RunTmuxCommand
    \/ StdoutData
    \/ \E chunk \in StderrChunks : StderrData(chunk)
    \/ TimerFires
    \/ \E errno \in SpawnErrnos : ProcError(errno)
    \/ \E code \in ExitCodes : ProcClose(code)

SpecAdapter == InitAdapter /\ [][NextAdapter]_vars

----------------------------------------------------------------------------
(* Claims about the adapter (SpecAdapter) *)

\* the promise of the invocation has settled
PromiseSettled == adapter.settled.kind # "pending"

----------------------------------------------------------------------------
(* SpecPair: two calls of executeCommand in flight on two sessions.  ex is *)
(* the call whose continuation runs next and peer the other one; Swap      *)
(* hands the turn over, as the event loop does at every await.             *)

\* echo y; exit 5
cmdExit5 == [output |-> <<"y", "NL">>, status |-> 5, empty |-> FALSE]

PairCommands == {cmdExit3, cmdExit5}

\* the event loop turns to the other call
Swap ==
    /\ ex' = peer
    /\ peer' = ex
    /\ UNCHANGED <<tmux, shell, sessionMetadata, uiLog, now, created, destroyed, outOfBand,
                   lastCall, files, nextExec, parse, adapter, ws, tool, lifecycle>>

InitPair ==
    /\ InitExec
    /\ ex = IdleOn("a")

\* the adapter does not fail, and a health probe is answered in time
NextPair ==
    \/ \E c \in PairCommands, t \in Timeouts : ExecuteCommand(c, t)
    \/ AttemptStartWith({{}}, {TRUE})
    \/ PollCompletedWith({{}}, {TRUE})
    \/ PollSleep
    \/ PollTimedOutWith({{}})
    \/ CatchRecoverWith({{}}, {TRUE})
    \/ CatchGiveUp
    \/ \E id \in SessionIds : ShellStart(id)
    \/ \E id \in SessionIds : ShellFinish(id)
    \/ Swap

SpecPair == InitPair /\ [][NextPair]_vars

----------------------------------------------------------------------------
(* Claims about two calls in flight (SpecPair) *)

\* what executeCommand returns for a command that ran to its end
OwnOutput(c) == _readOutput([exists |-> TRUE, text |-> c.output \o MarkerLine(c.status)])

\* C25: with two calls of executeCommand in flight on two sessions, the
\* artifacts of the two have different names; a step of one call leaves the
\* other call's artifacts, pane and session as they are; and a call that
\* returns a result returns the output and the exit code of its own command.
C25_CallsDoNotInterfere ==
    [][/\ (ex'.execId # 0 /\ peer'.execId # 0) => ex'.execId # peer'.execId
       /\ (peer' = peer /\ ex' # ex)
            => /\ peer.execId # 0 => files'[peer.execId] = files[peer.execId]
               /\ shell'[peer.sessionId] = shell[peer.sessionId]
               /\ tmux'[peer.sessionId] = tmux[peer.sessionId]
       /\ (ex'.pc = "done" /\ ex'.result.kind = "returned" /\ ~ex'.result.failed)
            => /\ ex'.result.stdout = OwnOutput(ex'.command).stdout
               /\ ex'.result.exit_code = ex'.command.status]_vars

\* one call has returned its result while the other, running another
\* command, waits with its capture artifact written
C25_Witness ==
    /\ ex.pc = "done" /\ ex.result.kind = "returned" /\ ~ex.result.failed
    /\ peer.pc = "waiting" /\ files[peer.execId].exists
    /\ ex.command # peer.command
    /\ ex.sessionId # peer.sessionId

----------------------------------------------------------------------------
(* SpecParent: the workspace TmuxManager of a server started inside a tmux *)
(* session.  The operations are modelled as they run once the parent       *)
(* session has been detected (isUsingParentSession).  issued is the log of *)
(* the tmux commands run, each with the window it names.                   *)

\* the name of the session the server was started in
ParentSessionName == <<"dev">>

\* names the window the server runs in may have
OwnWindowNames == {<<"srv">>, <<"my", "window">>}

\* window names a caller may pass
WindowNames == {<<"srv">>, <<"my", "window">>, <<"my">>, <<"main">>}

ParentFrame ==
    UNCHANGED <<tmux, shell, sessionMetadata, uiLog, now, created, destroyed, outOfBand, lastCall,
                files, nextExec, ex, parse, adapter, peer, tool, lifecycle>>

\* the i-th piece of _.split(output, ' '), undefined (<<>>) past the end
Piece(words, i) == IF i <= Len(words) THEN <<words[i]>> ELSE <<>>

Issue(m, cmd, window) == [m EXCEPT !.issued = @ \cup {<<cmd, window>>}]

Returned(m, op, window, ret) == [m EXCEPT !.last = [op |-> op, window |-> window, ret |-> ret]]

\* _handleParentSessionDetection: the names are kept and the scrollback
\* limit of the session is read, and raised when low
HandleParentSessionDetection(m, session, window, low) ==
    LET d == [m EXCEPT !.parentSession = session, !.parentWindow = window,
                       !.isUsingParentSession = TRUE]
        shown == Issue(d, "show", <<>>)
    IN  IF low THEN Issue(shown, "set", <<>>) ELSE shown

\* _detectFromPaneId: list-panes -F '#S #W' prints the session's and the
\* window's name with a space between them, and the line is split at spaces
DetectFromPaneId(m, low) ==
    LET output == ParentSessionName \o m.own
    IN  HandleParentSessionDetection(Issue(m, "list-panes", <<>>),
                                     Piece(output, 1), Piece(output, 2), low)

\* _detectFromParentTTY: the line of the pane whose tty is the parent's,
\* split at '::'
DetectFromParentTTY(m, low) ==
    HandleParentSessionDetection(Issue(m, "list-panes", <<>>), ParentSessionName, m.own, low)

\* the constructor's detection, by TMUX_PANE when the environment has it
\* and by the parent's tty otherwise; own is the name the window has
DetectParentSession(own, byPane, low) ==
    /\ ~ws.isUsingParentSession
    /\ ws.last.op = "none"
    /\ ws' = Returned(IF byPane
                      THEN DetectFromPaneId([ws EXCEPT !.own = own, !.windows = {own}], low)
                      ELSE DetectFromParentTTY([ws EXCEPT !.own = own, !.windows = {own}], low),
                      "detect", own, "resolved")
    /\ ParentFrame

\* createWindow in the parent session: [m, ok].  listed: list-windows
\* exits with 0; made: new-window does
CreateWindowOn(m, windowName, listed, made) ==
    LET l == Issue(m, "list-windows", <<>>)
    IN  IF listed /\ windowName \in m.windows THEN [m |-> l, ok |-> TRUE]
        ELSE IF made
             THEN [m |-> [Issue(l, "new-window", windowName)
                            EXCEPT !.windows = @ \cup {windowName}],
                   ok |-> TRUE]
             ELSE [m |-> Issue(l, "new-window", windowName), ok |-> FALSE]

\* lines 324-337 and 339-362 after the safety check: the window is made
\* sure of, then the command is run against parentSession:windowName
RunInWindow(m, op, cmd, windowName, c, ran) ==
    IF ~c.ok THEN Returned(c.m, op, windowName, "threw")
    ELSE Returned(Issue(c.m, cmd, windowName), op, windowName,
                  IF ran THEN "resolved" ELSE "threw")

\* sendKeys and capturePane in the parent session
GuardedInWindow(m, op, cmd, windowName, listed, made, ran) ==
    IF windowName = m.parentWindow
    THEN Returned(m, op, windowName, "threwOwnWindow")
    ELSE RunInWindow(m, op, cmd, windowName,
                     CreateWindowOn(m, windowName, listed, made), ran)

SendKeys(windowName) ==
    /\ ws.isUsingParentSession
    /\ \E listed, made, ran \in BOOLEAN :
        ws' = GuardedInWindow(ws, "sendKeys", "send-keys", windowName, listed, made, ran)
    /\ ParentFrame

CapturePane(windowName) ==
    /\ ws.isUsingParentSession
    /\ \E listed, made, ran \in BOOLEAN :
        ws' = GuardedInWindow(ws, "capturePane", "capture-pane", windowName, listed, made, ran)
    /\ ParentFrame

CreateWindow(windowName) ==
    /\ ws.isUsingParentSession
    /\ \E listed, made \in BOOLEAN :
        ws' = Returned(CreateWindowOn(ws, windowName, listed, made).m, "createWindow",
                       windowName,
                       IF CreateWindowOn(ws, windowName, listed, made).ok
                       THEN "resolved" ELSE "threw")
    /\ ParentFrame

\* createSession in the parent session: nothing is done
ParentCreateSession ==
    /\ ws.isUsingParentSession
    /\ ws' = Returned(ws, "createSession", <<>>, "resolved")
    /\ ParentFrame

\* destroySession in the parent session: throws
ParentDestroySession ==
    /\ ws.isUsingParentSession
    /\ ws' = Returned(ws, "destroySession", <<>>, "threw")
    /\ ParentFrame

InitParent == Init /\ tmux = [s \in SessionIds |-> {}]

NextParent ==
    \/ \E own \in OwnWindowNames, byPane, low \in BOOLEAN : DetectParentSession(own, byPane, low)
    \/ \E windowName \in WindowNames : SendKeys(windowName)
    \/ \E windowName \in WindowNames : CapturePane(windowName)
    \/ \E windowName \in WindowNames : CreateWindow(windowName)
    \/ ParentCreateSession
    \/ ParentDestroySession

SpecParent == InitParent /\ [][NextParent]_vars

----------------------------------------------------------------------------
(* Claims about the manager in a parent session (SpecParent) *)

\* C26: once the parent session has been detected, no tmux command run is a
\* send-keys or a capture-pane against the window the server runs in, and
\* none is a new-session or a kill-session.
C26_OwnWindowIsNeverTargeted ==
    ws.isUsingParentSession
    => \A r \in ws.issued :
          /\ r[1] \in {"send-keys", "capture-pane"} => r[2] # ws.own
          /\ r[1] \notin {"new-session", "kill-session"}

----------------------------------------------------------------------------
(* SpecServer: handleToolCall of TmuxMcpServer over a manager whose every  *)
(* method may reject.  A text is the sequence of its parts.                *)

ToolNames == {"run_command", "get_output", "send_input", "send_keys", "create_workspace",
              "destroy_workspace", "list_workspaces", "unknown_tool"}

\* the arguments of the request: the tool's arguments, none at all
\* (undefined), or lines and search together
ArgKinds == {"given", "undefined", "linesAndSearch"}

\* messages of the errors a manager method rejects with
ManagerMessages == {"Session not found: no server running",
                    "Cannot send keys to own window (srv)",
                    "tmux command not found. Please install tmux."}

ServerFrame ==
    UNCHANGED <<tmux, shell, sessionMetadata, uiLog, now, created, destroyed, outOfBand, lastCall,
                files, nextExec, ex, parse, adapter, peer, ws, lifecycle>>

\* a handler returning a text, and one throwing an error with a message
Text(calls, text) == [calls |-> calls, thrown |-> "none", text |-> text]
Throws(calls, message) == [calls |-> calls, thrown |-> message, text |-> <<>>]

\* the manager methods of calls run one after the other and the one of
\* index failAt rejects with message; then text is returned
Awaits(calls, failAt, message, text) ==
    IF failAt \in 1..Len(calls) THEN Throws(SubSeq(calls, 1, failAt), message)
    ELSE Text(calls, text)

\* the handler of a tool, lines 211-301: destructuring undefined throws a
\* TypeError before any manager method is called
Handler(name, args, parent, failAt, message) ==
    IF args = "undefined" /\ name \notin {"list_workspaces", "unknown_tool"}
    THEN Throws(<<>>, "Cannot destructure property of undefined")
    ELSE CASE name = "run_command" ->
                Awaits(<<"createSession", "sendKeys">>, failAt, message,
                       <<"Started command in ", "location">>)
           [] name = "get_output" ->
                IF args = "linesAndSearch"
                THEN Text(<<>>, <<"Error: ", "Cannot specify both lines and search">>)
                ELSE Awaits(<<"capturePane">>, failAt, message, <<"output">>)
           [] name = "send_input" ->
                Awaits(<<"sendKeys">>, failAt, message, <<"Sent input to ", "location">>)
           [] name = "send_keys" ->
                Awaits(<<"sendKeys">>, failAt, message, <<"Sent keys to ", "location">>)
           [] name = "create_workspace" ->
                Awaits(<<"createSession">>, failAt, message,
                       <<"Created workspace: ", "workspace_id">>)
           [] name = "destroy_workspace" ->
                Awaits(<<"destroySession">>, failAt, message,
                       <<"Destroyed workspace: ", "workspace_id">>)
           [] name = "list_workspaces" ->
                Awaits(IF parent THEN <<"listWindows">> ELSE <<"listWorkspaces">>,
                       failAt, message, <<"workspaces">>)
           [] OTHER -> Throws(<<>>, "Unknown tool: " \o name)

\* lines 304-309 and the switch: the workspace tools are refused in a
\* parent session before any handler runs
Dispatch(name, args, parent, failAt, message) ==
    IF parent /\ name \in {"create_workspace", "destroy_workspace"}
    THEN Text(<<>>, <<"Error: ",
                      "Workspace management not available when using parent tmux session">>)
    ELSE Handler(name, args, parent, failAt, message)

\* handleToolCall with no try/catch around the dispatch
Uncaught(h) ==
    [calls |-> h.calls, thrown |-> h.thrown,
     outcome |-> IF h.thrown = "none" THEN "returned" ELSE "threw",
     text |-> h.text]

\* the try/catch of lines 304-332: what was thrown becomes a content result
Caught(h) ==
    [calls |-> h.calls, thrown |-> h.thrown, outcome |-> "returned",
     text |-> IF h.thrown = "none" THEN h.text ELSE <<"Error: ", h.thrown>>]

\* the record of the call and of its result
ToolCall(name, args, parent, r) ==
    [name |-> name, args |-> args, parent |-> parent, calls |-> r.calls,
     thrown |-> r.thrown, outcome |-> r.outcome, text |-> r.text]

HandleToolCall(name, args, parent) ==
    /\ \E failAt \in 0..2, message \in ManagerMessages :
        tool' = ToolCall(name, args, parent,
                         Caught(Dispatch(name, args, parent, failAt, message)))
    /\ ServerFrame

NextServer ==
    \E name \in ToolNames, args \in ArgKinds, parent \in BOOLEAN :
        HandleToolCall(name, args, parent)

SpecServer == InitParent /\ [][NextServer]_vars

----------------------------------------------------------------------------
(* Claims about the server (SpecServer) *)

\* C27: handleToolCall returns a content result whatever the tool name, the
\* arguments and the rejections of the manager are; the text of the result
\* is 'Error: ' and the message of the error for a call in which an error
\* was thrown, and 'Error: Unknown tool: ' and the name for a name that is
\* no tool's.
C27_HandleToolCallNeverThrows ==
    tool.name # "none"
    => /\ tool.outcome = "returned"
       /\ tool.thrown # "none" => tool.text = <<"Error: ", tool.thrown>>
       /\ tool.name = "unknown_tool"
            => tool.text = <<"Error: ", "Unknown tool: unknown_tool">>

\* run_command whose sendKeys was rejected by the manager, after
\* createSession had resolved
C27_Witness ==
    /\ tool.name = "run_command"
    /\ tool.calls = <<"createSession", "sendKeys">>
    /\ tool.thrown \in ManagerMessages
    /\ tool.outcome = "returned"
    /\ tool.text = <<"Error: ", tool.thrown>>

----------------------------------------------------------------------------
(* SpecHang: one call of executeCommand, with the tmux child process that  *)
(* types the command into the pane a step of its own.  _sendKeysToTmux     *)
(* (lines 309-330) spawns the child and settles on its close or error      *)
(* event only: while the child runs the call is at "sending".              *)

\* lines 417-439 up to the spawn of send-keys, s being what the head of the
\* attempt came to
AttemptSpawned(s, attempt, e) ==
    IF s.err.kind # "none"
    THEN /\ CommitAll(s.w)
         /\ nextExec' = nextExec
         /\ ex' = [ex EXCEPT !.attempt = attempt, !.pc = "caught",
                              !.lastError = s.err, !.readable = <<>>]
    ELSE /\ CommitAll(s.w)
         /\ nextExec' = e
         /\ ex' = [ex EXCEPT !.attempt = attempt, !.pc = "sending", !.execId = e]

\* the next attempt, up to the spawn of the send-keys child
AttemptSpawn ==
    /\ ex.pc = "loop"
    /\ \E failAt \in FailSets(MaxCalls), inTime \in BOOLEAN :
        AttemptSpawned(EnsureSession(World(failAt, "timeout"), ex.sessionId,
                                     ex.attempt + 1, inTime),
                       ex.attempt + 1, nextExec + 1)
    /\ EngineFrame

\* the send-keys child closes, with code 0 or with another
SendKeysClose ==
    /\ ex.pc = "sending"
    /\ \E failAt \in FailSets(1) :
        AttemptSent(_sendKeysToTmux(World(failAt, "timeout"), ex.sessionId,
                                    Entry(ex.execId, ex.command)),
                    ex.attempt, ex.execId)
    /\ EngineFrame

NextHang ==
    \/ \E c \in Commands \cup {EmptyCommand}, t \in Timeouts : ExecuteCommand(c, t)
    \/ AttemptSpawn
    \/ SendKeysClose
    \/ PollCompleted
    \/ PollSleep
    \/ PollTimedOut
    \/ CatchRecover
    \/ CatchGiveUp
    \/ ShellStart(ExecSession)
    \/ ShellFinish(ExecSession)

SpecHang == InitExec /\ [][NextHang]_vars

\* SpecHangFair: timers fire and the shell goes on: the poll's sleep ends,
\* the catch block runs to its end, and the shell runs what was typed.
\* Nothing is assumed of the tmux child processes: one that never exits
\* never closes.
FairHang ==
    /\ WF_vars(PollSleep)
    /\ WF_vars(CatchGiveUp)
    /\ WF_vars(ShellStart(ExecSession))
    /\ WF_vars(ShellFinish(ExecSession))

SpecHangFair == SpecHang /\ FairHang

----------------------------------------------------------------------------
(* Claims about a tmux child that never exits (SpecHangFair) *)

\* C28: a call of executeCommand that waits for the send-keys child does not
\* wait for ever, whether or not the child exits: the invocation is bounded
\* by a timeout of its own, after which the attempt goes on or fails.
C28_SendKeysIsBounded == (ex.pc = "sending") ~> (ex.pc # "sending")

----------------------------------------------------------------------------
(* Claims about the health report (Spec) *)

\* C29: getSessionHealth(id) of a session that exists reports needs_cleanup
\* exactly when the time since the lastAccessed the Registry held before the
\* call exceeds the idle threshold, and the call leaves that lastAccessed as
\* it was.
C29_NeedsCleanupIffIdleBeforeCall ==
    [][\A id \in SessionIds :
        (/\ lastCall'.op = "getSessionHealth" /\ lastCall'.id = id
         /\ lastCall'.ret # "absent"
         /\ id \in DOMAIN sessionMetadata
         /\ GetSessionHealthStep(id, {}))
        => /\ getSessionHealth(World({}, "timeout"), id).needs_cleanup <=> Idle(id)
           /\ sessionMetadata'[id].lastAccessed = sessionMetadata[id].lastAccessed]_vars

----------------------------------------------------------------------------
(* SpecParseTee: the capture artifact of one wrapped command, read by the  *)
(* _readOutput of the tee-based executor (lines 119-146).                  *)

\* String.prototype.trim, the newline being the only white space of the texts
RECURSIVE TrimStart(_)
TrimStart(text) ==
    IF text # <<>> /\ Head(text) = "NL" THEN TrimStart(Tail(text)) ELSE text
RECURSIVE TrimEnd(_)
TrimEnd(text) ==
    IF text # <<>> /\ text[Len(text)] = "NL" THEN TrimEnd(SubSeq(text, 1, Len(text) - 1))
    ELSE text
Trim(text) == TrimEnd(TrimStart(text))

\* lines 126-131: lines.pop() is taken for the status line when it is not
\* empty and starts with the marker, and is put back otherwise
PopExitCodeLine(lines, exitCodeLine) ==
    IF exitCodeLine # <<>> /\ StartsWithMarker(exitCodeLine)
    THEN [stdout |-> Trim(Join(lines)), exit_code |-> parseInt(AfterFirstColon(exitCodeLine))]
    ELSE [stdout |-> Trim(Join(Append(lines, exitCodeLine))), exit_code |-> -1]

\* the pieces of output.split('\n'), the last one popped
SplitAndPop(lines) == PopExitCodeLine(SubSeq(lines, 1, Len(lines) - 1), lines[Len(lines)])

\* _readOutput of the tee-based executor; file = [exists, text]
_readOutputTee(file) ==
    IF ~file.exists
    THEN [stdout |-> <<>>, exit_code |-> -1]
    ELSE SplitAndPop(Split(file.text, "NL"))

\* the sentinel was seen: executeCommand reads the capture artifact (line 35)
ReadOutputTee ==
    /\ parse.phase = "captured"
    /\ parse' = [parse EXCEPT !.phase = "readTee", !.result = _readOutputTee(parse.capture)]
    /\ ParseOnly

NextParseTee == ShellRunsWrapped \/ ReadOutputTee

SpecParseTee == InitParse /\ [][NextParseTee]_vars

----------------------------------------------------------------------------
(* Claims about the tee-based executor's parsing (SpecParseTee) *)

\* C30: for a capture artifact that ends with the status line and a newline
\* (the command's output is empty or ends with a newline),
\* _readOutput of the tee-based executor returns the status as exit_code and,
\* as stdout, the content before the status line.
C30_TeeReadOutputSplitsStatusLine ==
    (/\ parse.phase = "readTee"
     /\ parse.output = <<>> \/ parse.output[Len(parse.output)] = "NL")
    => /\ parse.result.exit_code = parse.status
       /\ parse.result.stdout = Trim(parse.output)

----------------------------------------------------------------------------
(* Claims about the Registry's counters (SpecWait) *)

\* the step in which an attempt of the call on session id ends with a result
Succeeds(id) ==
    /\ ex.pc = "waiting" /\ ex'.pc = "done" /\ ~ex'.result.failed
    /\ ex.sessionId = id

C32_OnlyCreateSessionAddsRecords ==
    [][\A id \in SessionIds :
        /\ (id \notin DOMAIN sessionMetadata /\ id \in DOMAIN sessionMetadata')
           => (/\ lastCall'.op = "createSession" /\ lastCall'.id = id
               /\ lastCall'.ret = "resolved"
               /\ {<<"new-session", id>>, <<"new-window", id>>} \subseteq lastCall'.issued
               /\ tmux'[id] = {"exec", "ui"})
        /\ id \notin DOMAIN sessionMetadata
           => (/\ (lastCall'.op \in {"sessionExists", "getSessionHealth"} /\ lastCall'.id = id)
                  => sessionMetadata' = sessionMetadata
               /\ _updateSessionMetadata(World({}, "timeout"), id, "lastAccessed", now).sessionMetadata
                     = sessionMetadata
               /\ recordCommandExecution(World({}, "timeout"), id, "/tmp").sessionMetadata
                     = sessionMetadata)]_vars

\* sessionExists has answered true for a session that stands with both
\* windows and has no record, and the Registry holds a record of another
\* session only
C32_Witness ==
    /\ lastCall.op = "sessionExists" /\ lastCall.ret = "true"
    /\ lastCall.id \notin DOMAIN sessionMetadata
    /\ tmux[lastCall.id] = {"exec", "ui"}
    /\ DOMAIN sessionMetadata # {}

----------------------------------------------------------------------------
(* SpecWorkspace: the workspace TmuxManager of a server started outside a  *)
(* tmux session (isUsingParentSession is false).  The workspace id is kept *)
(* in a backend session named '<id>-MCP'.  A name is the sequence of its   *)
(* pieces, the suffix "-MCP" being one piece; backend gives, for every      *)
(* session name, how many windows of each name the session has (a session  *)
(* stands when it has a window); issued is the log of the tmux commands of *)
(* the operation under way, each with the session it names.                *)

\* workspace ids a caller may pass: 'a' and the empty string
WorkspaceIds == {<<"a">>, <<>>}

\* `${sessionId}-MCP`
McpName(id) == id \o <<"-MCP">>

\* a session of the user's, not made by the server
ForeignNames == {<<"dev">>}

BackendNames == {McpName(id) : id \in WorkspaceIds} \cup ForeignNames

WorkspaceWindows == {"main", "w1"}

\* most windows of one name in one session
MaxCopies == 2

NoWindows == [w \in WorkspaceWindows |-> 0]
MainWindow == [w \in WorkspaceWindows |-> IF w = "main" THEN 1 ELSE 0]

Stands(m, name) == \E w \in WorkspaceWindows : m.backend[name][w] > 0

\* the tmux commands the workspace manager runs
WorkspaceCommands == {"has-session", "new-session", "show", "set", "list-windows",
                      "new-window", "send-keys", "capture-pane", "kill-session", "ls"}

\* the commands whose invocations fail in one operation, whatever the
\* backend holds (a timeout of the adapter, a server that does not answer)
FaultSets == {F \in SUBSET WorkspaceCommands : Cardinality(F) <= MaxFaults}

WorkspaceFrame ==
    UNCHANGED <<tmux, shell, sessionMetadata, uiLog, now, created, destroyed, outOfBand, lastCall,
                files, nextExec, ex, parse, adapter, peer, tool, lifecycle>>

\* an operation starts: its log is empty
Begin(m) == [m EXCEPT !.issued = {}, !.dup = FALSE, !.listError = FALSE]

\* an operation came to ret; list is what listSessions returned
Answered(m, op, id, window, ret, list) ==
    [m EXCEPT !.last = [op |-> op, id |-> id, window |-> window, ret |-> ret, list |-> list]]

\* sessionExists, lines 175-187: has-session, any failure being false
workspaceSessionExists(m, id, F) ==
    [m |-> Issue(m, "has-session", McpName(id)),
     ret |-> "has-session" \notin F /\ Stands(m, McpName(id))]

\* lines 213-222: the scrollback limit is read and, when low, raised; a
\* failure of either command is caught
DefaultScrollback(m, id, F, low) ==
    IF "show" \notin F /\ low
    THEN Issue(Issue(m, "show", McpName(id)), "set", McpName(id))
    ELSE Issue(m, "show", McpName(id))

\* a creation command is run: dup keeps whether what it creates stood already
Creating(m, cmd, id, stood) == [Issue(m, cmd, McpName(id)) EXCEPT !.dup = @ \/ stood]

\* createSession, lines 201-232: [m, ok]
NewSessionOn(e, id, F, low) ==
    IF e.ret THEN [m |-> e.m, ok |-> TRUE]
    ELSE IF "new-session" \in F \/ Stands(e.m, McpName(id))
         THEN [m |-> Creating(e.m, "new-session", id, Stands(e.m, McpName(id))), ok |-> FALSE]
         ELSE [m |-> [DefaultScrollback(Creating(e.m, "new-session", id, FALSE), id, F, low)
                        EXCEPT !.backend[McpName(id)] = MainWindow,
                               !.sessionMetadata = @ \cup {id}],
               ok |-> TRUE]

workspaceCreateSession(m, id, F, low) ==
    NewSessionOn(workspaceSessionExists(m, id, F), id, F, low)

\* windowExists, lines 189-199: list-windows, any failure being false
workspaceWindowExists(m, id, windowName, F) ==
    [m |-> Issue(m, "list-windows", McpName(id)),
     ret |-> "list-windows" \notin F /\ m.backend[McpName(id)][windowName] > 0]

\* lines 239-253 of createWindow: tmux opens a window under a name another
\* window of the session has already
NewWindowOn(x, id, windowName, F) ==
    IF x.ret THEN [m |-> x.m, ok |-> TRUE]
    ELSE IF "new-window" \in F \/ ~Stands(x.m, McpName(id))
         THEN [m |-> Creating(x.m, "new-window", id, x.m.backend[McpName(id)][windowName] > 0),
               ok |-> FALSE]
         ELSE [m |-> [Creating(x.m, "new-window", id, x.m.backend[McpName(id)][windowName] > 0)
                        EXCEPT !.backend[McpName(id)][windowName] = @ + 1],
               ok |-> TRUE]

\* createWindow, lines 234-254: [m, ok]
WindowAfterSession(c, id, windowName, F) ==
    IF ~c.ok THEN c
    ELSE NewWindowOn(workspaceWindowExists(c.m, id, windowName, F), id, windowName, F)

workspaceCreateWindow(m, id, windowName, F, low) ==
    WindowAfterSession(workspaceCreateSession(m, id, F, low), id, windowName, F)

\* lines 331-336 and 346-361: the command is run against '<id>-MCP:<window>'
RunAfterWindow(c, op, cmd, id, windowName, F) ==
    IF ~c.ok THEN Answered(c.m, op, id, windowName, "threw", {})
    ELSE Answered(Issue(c.m, cmd, McpName(id)), op, id, windowName,
                  IF cmd \notin F /\ c.m.backend[McpName(id)][windowName] > 0
                  THEN "resolved" ELSE "threw", {})

\* sendKeys, lines 324-337, and capturePane, lines 339-362
workspaceRunInWindow(m, op, cmd, id, windowName, F, low) ==
    RunAfterWindow(workspaceCreateWindow(Begin(m), id, windowName, F, low),
                   op, cmd, id, windowName, F)

\* destroySession, lines 256-267
KillOn(e, id, F) ==
    IF ~e.ret THEN Answered(e.m, "destroySession", id, "", "resolved", {})
    ELSE IF "kill-session" \in F
         THEN Answered(Issue(e.m, "kill-session", McpName(id)), "destroySession", id, "",
                       "threw", {})
         ELSE Answered([Issue(e.m, "kill-session", McpName(id))
                          EXCEPT !.backend[McpName(id)] = NoWindows,
                                 !.sessionMetadata = @ \ {id}],
                       "destroySession", id, "", "resolved", {})

workspaceDestroySession(m, id, F) == KillOn(workspaceSessionExists(Begin(m), id, F), id, F)

\* the names `tmux ls -F '#S'` prints, one to a line
ListedNames(m) == {name \in BackendNames : Stands(m, name)}

\* lines 277-283: the names that end in '-MCP', without their last four
\* characters, the empty ones dropped
WorkspaceIdsOf(names) ==
    {SubSeq(name, 1, Len(name) - 1) : name \in {n \in names : n[Len(n)] = "-MCP"}} \ {<<>>}

\* listSessions, lines 269-288: tmux ls fails when no session stands
\* (no server running); listError keeps whether the catch block answered
workspaceListSessions(m, F) ==
    IF "ls" \in F \/ ListedNames(m) = {}
    THEN Answered([Issue(Begin(m), "ls", <<>>) EXCEPT !.listError = TRUE],
                  "listSessions", <<>>, "", "resolved", {})
    ELSE Answered(Issue(Begin(m), "ls", <<>>), "listSessions", <<>>, "", "resolved",
                  WorkspaceIdsOf(ListedNames(m)))

WorkspaceSendKeys(id, windowName) ==
    /\ \E F \in FaultSets, low \in BOOLEAN :
        ws' = workspaceRunInWindow(ws, "sendKeys", "send-keys", id, windowName, F, low)
    /\ \A w \in WorkspaceWindows : ws'.backend[McpName(id)][w] <= MaxCopies
    /\ WorkspaceFrame

WorkspaceCapturePane(id, windowName) ==
    /\ \E F \in FaultSets, low \in BOOLEAN :
        ws' = workspaceRunInWindow(ws, "capturePane", "capture-pane", id, windowName, F, low)
    /\ \A w \in WorkspaceWindows : ws'.backend[McpName(id)][w] <= MaxCopies
    /\ WorkspaceFrame

WorkspaceCreateSession(id) ==
    /\ \E F \in FaultSets, low \in BOOLEAN :
        ws' = Answered(workspaceCreateSession(Begin(ws), id, F, low).m, "createSession", id, "",
                       IF workspaceCreateSession(Begin(ws), id, F, low).ok
                       THEN "resolved" ELSE "threw", {})
    /\ WorkspaceFrame

WorkspaceDestroySession(id) ==
    /\ \E F \in FaultSets : ws' = workspaceDestroySession(ws, id, F)
    /\ WorkspaceFrame

WorkspaceListSessions ==
    /\ \E F \in FaultSets : ws' = workspaceListSessions(ws, F)
    /\ WorkspaceFrame

\* the manager as constructed when no parent session is found, over a
\* backend where each session is absent or stands with its first window
InitWorkspace ==
    /\ InitBackend
    /\ tmux = [s \in SessionIds |-> {}]
    /\ files = [e \in ExecIds |-> NoArtifacts]
    /\ nextExec = 0
    /\ parse = NoParse
    /\ adapter = NoAdapter
    /\ peer = IdleOn("timed out")
    /\ tool = NoToolCall
    /\ lifecycle = NoLifecycle
    /\ ex = IdleEx
    /\ now = 0
    /\ \E b \in [BackendNames -> {NoWindows, MainWindow}] :
          ws = [isUsingParentSession |-> FALSE, backend |-> b, sessionMetadata |-> {},
                issued |-> {}, dup |-> FALSE, listError |-> FALSE,
                last |-> [op |-> "none", id |-> <<>>, window |-> "", ret |-> "none",
                          list |-> {}]]

NextWorkspace ==
    \/ \E id \in WorkspaceIds, windowName \in WorkspaceWindows : WorkspaceSendKeys(id, windowName)
    \/ \E id \in WorkspaceIds, windowName \in WorkspaceWindows :
          WorkspaceCapturePane(id, windowName)
    \/ \E id \in WorkspaceIds : WorkspaceCreateSession(id)
    \/ \E id \in WorkspaceIds : WorkspaceDestroySession(id)
    \/ WorkspaceListSessions

SpecWorkspace == InitWorkspace /\ [][NextWorkspace]_vars

----------------------------------------------------------------------------
(* Claims about the workspace manager outside a parent session (SpecWorkspace) *)

\* C33: when sendKeys or capturePane has run its send-keys or capture-pane
\* command, the session and the window it names stand, and the call has run
\* no new-session for a session and no new-window for a window that stood
\* already.
C33_KeysOnlyAfterSessionAndWindow ==
    ws.last.op \in {"sendKeys", "capturePane"}
    => /\ (\E r \in ws.issued : r[1] \in {"send-keys", "capture-pane"})
             => ws.backend[McpName(ws.last.id)][ws.last.window] > 0
       /\ ~ws.dup

\* C35: listSessions answers the names of the standing sessions that end
\* in '-MCP', without the suffix and without the empty one, and nothing when
\* tmux ls failed; when the call before it was a createSession(id) that
\* resolved, the answer (tmux ls not having failed) holds id, and when it
\* was a destroySession(id) that resolved, the answer does not hold id.
C35_ListSessionsFollowsCreateAndDestroy ==
    [][(ws'.last.op = "listSessions" /\ ws' # ws)
       => /\ ws'.last.list = IF ws'.listError THEN {}
                             ELSE WorkspaceIdsOf(ListedNames(ws))
          /\ (~ws'.listError /\ ws.last.op = "createSession" /\ ws.last.ret = "resolved")
                => ws.last.id \in ws'.last.list
          /\ (ws.last.op = "destroySession" /\ ws.last.ret = "resolved")
                => ws.last.id \notin ws'.last.list]_vars

----------------------------------------------------------------------------
(* SpecInstall: the lifecycle manager on a machine that may lack the tmux  *)
(* binary.  While it is missing every spawn of tmux fails with ENOENT,     *)
(* which the adapter turns into 'tmux command not found. Please install    *)
(* tmux.' (line 733).  The binary may be removed and installed while the   *)
(* server runs.                                                            *)

\* more adapter invocations than one operation makes
AllCalls == 1..(4 + 3 * Cardinality(SessionIds))

\* the world of an operation: every invocation fails while tmux is missing
InstallWorld(l) == World(IF l.installed THEN {} ELSE AllCalls, "enoent")

\* checkTmuxInstallation, lines 428-449: [l, threw]; it throws the install
\* guidance ('tmux is not installed. Please install tmux: ...')
checkTmuxInstallation(l) ==
    IF l.tmuxAvailable # "null" THEN [l |-> l, threw |-> FALSE]
    ELSE IF l.installed THEN [l |-> [l EXCEPT !.tmuxAvailable = "true"], threw |-> FALSE]
    ELSE [l |-> [l EXCEPT !.tmuxAvailable = "false"], threw |-> TRUE]

InstallFrame ==
    UNCHANGED <<now, outOfBand, lastCall, files, nextExec, ex, parse, adapter, peer, ws, tool>>

\* a call of the manager came to outcome
Outcome(l, op, id, outcome) ==
    [l EXCEPT !.last = [op |-> op, id |-> id, outcome |-> outcome, missing |-> ~l.installed]]

\* listSessions, lines 552-563, c being what checkTmuxInstallation came to:
\* an error is thrown on when its message has 'tmux is not installed'
CheckedListSessionsOn(c) ==
    IF c.threw
    THEN /\ lifecycle' = Outcome(c.l, "listSessions", "*", "threwNotInstalled")
         /\ UNCHANGED <<tmux, shell, sessionMetadata, uiLog, created, destroyed>>
    ELSE /\ lifecycle' = Outcome(c.l, "listSessions", "*",
                                 IF listSessions(InstallWorld(c.l)).ret = {}
                                 THEN "returnedEmpty" ELSE "returned")
         /\ Commit(listSessions(InstallWorld(c.l)).w)

CheckedListSessions ==
    /\ CheckedListSessionsOn(checkTmuxInstallation(lifecycle))
    /\ InstallFrame

\* createSession, lines 451-524: the check of line 452 is outside the try
\* block; an error of the try block is thrown on as 'Failed to create tmux
\* session: ' and its message
CheckedCreateSessionOn(c, id) ==
    IF c.threw
    THEN /\ lifecycle' = Outcome(c.l, "createSession", id, "threwNotInstalled")
         /\ UNCHANGED <<tmux, shell, sessionMetadata, uiLog, created, destroyed>>
    ELSE /\ lifecycle' = Outcome(c.l, "createSession", id,
                                 IF createSession(InstallWorld(c.l), id).err.kind = "none"
                                 THEN "resolved"
                                 ELSE IF createSession(InstallWorld(c.l), id).err.inner = "enoent"
                                      THEN "threwCommandNotFound" ELSE "threw")
         /\ Commit(createSession(InstallWorld(c.l), id).w)

CheckedCreateSession(id) ==
    /\ CheckedCreateSessionOn(checkTmuxInstallation(lifecycle), id)
    /\ InstallFrame

\* sessionExists, lines 526-550: the check is inside the try block, whose
\* catch block answers false
CheckedSessionExists(id) ==
    /\ lifecycle' = Outcome(checkTmuxInstallation(lifecycle).l, "sessionExists", id,
                            IF sessionExists(InstallWorld(lifecycle), id).ret
                            THEN "true" ELSE "false")
    /\ Commit(sessionExists(InstallWorld(lifecycle), id).w)
    /\ InstallFrame

\* the binary is removed from the machine, or installed on it
SetInstalled(b) ==
    /\ lifecycle.installed # b
    /\ lifecycle' = [lifecycle EXCEPT !.installed = b]
    /\ UNCHANGED <<tmux, shell, sessionMetadata, uiLog, created, destroyed>>
    /\ InstallFrame

InitInstall ==
    /\ InitBackend
    /\ files = [e \in ExecIds |-> NoArtifacts]
    /\ nextExec = 0
    /\ parse = NoParse
    /\ adapter = NoAdapter
    /\ peer = IdleOn("timed out")
    /\ ws = NoWorkspace
    /\ tool = NoToolCall
    /\ ex = IdleEx
    /\ now = 0
    /\ \E b \in BOOLEAN : lifecycle = [NoLifecycle EXCEPT !.installed = b]

NextInstall ==
    \/ CheckedListSessions
    \/ \E id \in SessionIds : CheckedCreateSession(id)
    \/ \E id \in SessionIds : CheckedSessionExists(id)
    \/ \E b \in BOOLEAN : SetInstalled(b)

SpecInstall == InitInstall /\ [][NextInstall]_vars

----------------------------------------------------------------------------
(* Claims about a machine without tmux (SpecInstall) *)

\* C34: a call of listSessions or of createSession made while the binary is
\* missing ends in an error that tells the user to install tmux.
C34_MissingBinaryAlwaysFails ==
    (lifecycle.last.op \in {"listSessions", "createSession"} /\ lifecycle.last.missing)
    => lifecycle.last.outcome \in {"threwNotInstalled", "threwCommandNotFound"}

----------------------------------------------------------------------------
(* SpecRace: two calls of createSession of the lifecycle manager in flight *)
(* at once.  Each await of createSession that runs a tmux command is a     *)
(* step; lifecycle.creating[i] is the position of call i and its local      *)
(* variables.  The binary is there and no adapter invocation fails of      *)
(* itself.                                                                 *)

Callers == {1, 2}

\* a call slot with no call in it
NoCreate == [pc |-> "none", id |-> "*", sessionAlreadyExists |-> FALSE]

\* the world of one step of a call
RaceWorld == World({}, "timeout")

RaceFrame ==
    UNCHANGED <<now, outOfBand, lastCall, files, nextExec, ex, parse, adapter, peer, ws, tool>>

At(i, pc) == lifecycle.creating[i].pc = pc

\* call i moves to pc, the step having left the world w
Moves(i, pc, w) ==
    /\ lifecycle' = [lifecycle EXCEPT !.creating[i].pc = pc]
    /\ Commit(w)
    /\ RaceFrame

\* a caller calls createSession(id)
RaceCall(i, id) ==
    /\ lifecycle.creating[i].pc \in {"none", "resolved", "threw"}
    /\ lifecycle' = [lifecycle EXCEPT !.creating[i] =
                        [pc |-> "start", id |-> id, sessionAlreadyExists |-> FALSE]]
    /\ UNCHANGED <<tmux, shell, sessionMetadata, uiLog, created, destroyed>>
    /\ RaceFrame

\* line 458: has-session
RaceProbedOn(i, h) ==
    /\ lifecycle' = [lifecycle EXCEPT !.creating[i].pc = "probed",
                                      !.creating[i].sessionAlreadyExists = (h.err.kind = "none")]
    /\ Commit(h.w)
    /\ RaceFrame

RaceProbe(i) ==
    /\ At(i, "start")
    /\ RaceProbedOn(i, _runTmuxCommand(RaceWorld, "has-session", lifecycle.creating[i].id))

\* lines 459-468: sessionExists, then the early return, or the way on
RaceConfiguredOn(i, c, id) ==
    IF lifecycle.creating[i].sessionAlreadyExists /\ c.ret
    THEN Moves(i, "resolved", _updateSessionMetadata(c.w, id, "lastAccessed", c.w.now))
    ELSE IF lifecycle.creating[i].sessionAlreadyExists
         THEN Moves(i, "destroy", c.w)
         ELSE Moves(i, "new-session", c.w)

RaceConfigured(i) ==
    /\ At(i, "probed")
    /\ RaceConfiguredOn(i, sessionExists(RaceWorld, lifecycle.creating[i].id),
                        lifecycle.creating[i].id)

\* line 463: destroySession of the session that is not configured
RaceDestroy(i) ==
    /\ At(i, "destroy")
    /\ Moves(i, "new-session", destroySession(RaceWorld, lifecycle.creating[i].id).w)

\* a command of the try block has settled as r: on to pc, or to the catch block
RaceTriedOn(i, r, pc) == Moves(i, IF r.err.kind = "none" THEN pc ELSE "catch", r.w)

\* lines 474-479: new-session
RaceNewSession(i) ==
    /\ At(i, "new-session")
    /\ RaceTriedOn(i, _runTmuxCommand(RaceWorld, "new-session", lifecycle.creating[i].id),
                   "new-window")

\* lines 484-488: new-window
RaceNewWindow(i) ==
    /\ At(i, "new-window")
    /\ RaceTriedOn(i, _runTmuxCommand(RaceWorld, "new-window", lifecycle.creating[i].id),
                   "register")

\* lines 493-511: the log file is written and the records are set
RaceRegister(i) ==
    /\ At(i, "register")
    /\ Moves(i, "resolved",
             CreateRegistered([w |-> RaceWorld, err |-> NoErr], lifecycle.creating[i].id).w)

\* lines 513-522: the catch block destroys the session it finds and throws
RaceCleanup(i) ==
    /\ At(i, "catch")
    /\ Moves(i, "threw",
             CreateCleanup(RaceWorld, lifecycle.creating[i].id, Err("generic")).w)

\* no backend session, no record, no call
InitRace ==
    /\ InitBackend
    /\ tmux = [s \in SessionIds |-> {}]
    /\ files = [e \in ExecIds |-> NoArtifacts]
    /\ nextExec = 0
    /\ parse = NoParse
    /\ adapter = NoAdapter
    /\ peer = IdleOn("timed out")
    /\ ws = NoWorkspace
    /\ tool = NoToolCall
    /\ ex = IdleEx
    /\ now = 0
    /\ lifecycle = [NoLifecycle EXCEPT !.tmuxAvailable = "true",
                                       !.creating = [i \in Callers |-> NoCreate]]

NextRace ==
    \/ \E i \in Callers, id \in SessionIds : RaceCall(i, id)
    \/ \E i \in Callers : RaceProbe(i)
    \/ \E i \in Callers : RaceConfigured(i)
    \/ \E i \in Callers : RaceDestroy(i)
    \/ \E i \in Callers : RaceNewSession(i)
    \/ \E i \in Callers : RaceNewWindow(i)
    \/ \E i \in Callers : RaceRegister(i)
    \/ \E i \in Callers : RaceCleanup(i)

SpecRace == InitRace /\ [][NextRace]_vars

----------------------------------------------------------------------------
(* Claims about interleaved calls of createSession (SpecRace) *)

\* C36: the session of a createSession call that has resolved stands with
\* both its windows and has its record, whatever the other call does.
C36_ResolvedSessionSurvivesTheOtherCall ==
    \A i \in Callers :
        At(i, "resolved")
        => /\ tmux[lifecycle.creating[i].id] = {"exec", "ui"}
           /\ lifecycle.creating[i].id \in DOMAIN sessionMetadata

----------------------------------------------------------------------------
(* Claims about the cleanup sweep (SpecWindows) *)

\* C37: a session the manager kills in a cleanup sweep is one it holds a
\* record of.
C37_SweepDestroysOnlyRecordedSessions ==
    [][\A id \in SessionIds :
        (/\ lastCall'.op = "performLifecycleCleanup"
         /\ id \notin destroyed /\ id \in destroyed')
        => id \in DOMAIN sessionMetadata]_vars

\* C39: after a cleanup sweep, no session in the list it returned stands in
\* the backend and none has a record.
C39_CleanedSessionsAreGone ==
    lastCall.op = "performLifecycleCleanup"
    => \A id \in lastCall.cleaned : tmux[id] = {} /\ id \notin DOMAIN sessionMetadata

----------------------------------------------------------------------------
(* Claims about retries (SpecWait) *)

\* C38: in one call of executeCommand the caller's command is typed into a
\* pane at most once.
C38_CommandSubmittedAtMostOnce == ex.submitted <= 1

----------------------------------------------------------------------------
(* SpecDetect: the start of the server.  The constructor of the workspace  *)
(* manager starts the detection of the parent session and keeps its        *)
(* promise; run connects the transport; a request is received by its       *)
(* handler and served by it.  ws.detection is the position of the          *)
(* detection, ws.inTmux whether the server was started in a pane of tmux;  *)
(* tool.waiting holds the requests received and not served yet.            *)

\* the requests of a client: the tool listing, and calls of tools
Requests == {"tools/list", "run_command", "get_output", "send_keys"}

DetectFrame ==
    UNCHANGED <<tmux, shell, sessionMetadata, uiLog, now, created, destroyed, outOfBand, lastCall,
                files, nextExec, ex, parse, adapter, peer, lifecycle>>

\* ensureInitialized without the await
ensureInitializedAtOnce(m) == TRUE

\* ensureInitialized, lines 120-122: the await goes on once _detectionPromise
\* has settled
ensureInitialized(m) == m.detection = "settled"

\* _detectFromPaneId and _detectFromParentTTY up to their await of
\* _handleParentSessionDetection: list-panes and, when it names the pane of
\* the server, lines 104-106
DetectListPanes(found) ==
    /\ ws.detection = "pending"
    /\ ws' = IF found /\ ws.inTmux
             THEN [Issue(ws, "list-panes", <<>>) EXCEPT
                      !.parentSession = ParentSessionName, !.parentWindow = ws.own,
                      !.isUsingParentSession = TRUE, !.detection = "scrollback"]
             ELSE [Issue(ws, "list-panes", <<>>) EXCEPT !.detection = "settled"]
    /\ UNCHANGED tool
    /\ DetectFrame

\* lines 109-117: the scrollback limit is read and, when low, raised; then
\* the promise settles
DetectScrollback(low) ==
    /\ ws.detection = "scrollback"
    /\ ws' = [(IF low THEN Issue(Issue(ws, "show", <<>>), "set", <<>>)
               ELSE Issue(ws, "show", <<>>)) EXCEPT !.detection = "settled"]
    /\ UNCHANGED tool
    /\ DetectFrame

\* run, server.js lines 487-494
ServerRun ==
    /\ ~tool.connected
    /\ ensureInitialized(ws)
    /\ tool' = [tool EXCEPT !.connected = TRUE]
    /\ UNCHANGED ws
    /\ DetectFrame

\* a request arrives over the transport and its handler is called
Receive(request) ==
    /\ tool.connected
    /\ request \notin tool.waiting
    /\ tool' = [tool EXCEPT !.waiting = @ \cup {request}]
    /\ UNCHANGED ws
    /\ DetectFrame

\* the session a handler works on: parentSession, or '<workspace_id>-MCP'
RoutedTo(m) == IF m.isUsingParentSession THEN m.parentSession ELSE McpName(<<"default">>)

\* the handlers of server.js lines 409-420 after their await: the listing
\* and the tool handlers read isUsingParentSession (lines 37, 212, 224, 263)
Serve(request) ==
    /\ request \in tool.waiting
    /\ ensureInitialized(ws)
    /\ tool' = [tool EXCEPT !.waiting = @ \ {request},
                            !.served = [request |-> request,
                                        parent |-> ws.isUsingParentSession,
                                        detection |-> ws.detection,
                                        session |-> RoutedTo(ws)]]
    /\ UNCHANGED ws
    /\ DetectFrame

InitDetect ==
    /\ InitBackend
    /\ tmux = [s \in SessionIds |-> {}]
    /\ files = [e \in ExecIds |-> NoArtifacts]
    /\ nextExec = 0
    /\ parse = NoParse
    /\ adapter = NoAdapter
    /\ peer = IdleOn("timed out")
    /\ lifecycle = NoLifecycle
    /\ ex = IdleEx
    /\ now = 0
    /\ \E own \in OwnWindowNames, inTmux \in BOOLEAN :
          ws = [isUsingParentSession |-> FALSE, parentSession |-> <<>>, parentWindow |-> <<>>,
                own |-> own, issued |-> {}, inTmux |-> inTmux, detection |-> "pending"]
    /\ tool = [connected |-> FALSE, waiting |-> {},
               served |-> [request |-> "none", parent |-> FALSE, detection |-> "none",
                           session |-> <<>>]]

NextDetect ==
    \/ \E found \in BOOLEAN : DetectListPanes(found)
    \/ \E low \in BOOLEAN : DetectScrollback(low)
    \/ ServerRun
    \/ \E request \in Requests : Receive(request)
    \/ \E request \in Requests : Serve(request)

SpecDetect == InitDetect /\ [][NextDetect]_vars

----------------------------------------------------------------------------
(* Claims about the start of the server (SpecDetect) *)

\* C40: a request is served only when the detection of the parent session
\* has settled, with the value isUsingParentSession keeps from then on; when
\* a parent session was detected the request works on that session and not
\* on a session named '<id>-MCP'.
C40_ServedAfterDetectionSettled ==
    tool.served.request # "none"
    => /\ tool.served.detection = "settled"
       /\ tool.served.parent = ws.isUsingParentSession
       /\ ws.isUsingParentSession => tool.served.session = ParentSessionName

\* a tool call was served in the parent session, which was detected while
\* the scrollback limit was raised
C40_Witness ==
    /\ tool.served.request = "run_command"
    /\ tool.served.parent /\ tool.served.session = ParentSessionName
    /\ <<"set", <<>>>> \in ws.issued

====
